---------------------------- MODULE Spec2Model ----------------------------
(***************************************************************************)
(* AbleDOOM: the Push hardware facade (PushHardware) and the control       *)
(* mapper (AbleDoom), modelled from abledoom.hpp / abledoom.cpp.           *)
(*                                                                         *)
(* Nine specifications share one state vector:                             *)
(*   Spec      the display transfer pipeline (copyToScreen, submitScreen,  *)
(*             the completion callback, the destructor);                   *)
(*   SpecMidi  MIDI input (onMessage decoding into onInput, fetchEvent)    *)
(*             next to the pad LED setter;                                 *)
(*   SpecLeds  MIDI output (the LED setters, resetLEDs, a status bar);     *)
(*   SpecRace  the key-event queue shared by the MIDI input thread         *)
(*             (onInput) and the frame loop (fetchEvent);                  *)
(*   SpecInput the control mapper: onInput filling the key-event queue,    *)
(*             DG_GetKey draining it;                                      *)
(*   SpecCalc  the pure functions toBGR565 and valueToButtonCount;         *)
(*   SpecBlit  the rectangular copyToScreen;                               *)
(*   SpecFrame drawFrame: the two copies, submitScreen and the status      *)
(*             bars, with the game changing the player between frames;     *)
(*   SpecLoop  the frame loop calling submitScreen for ever, under         *)
(*             fairness, for the liveness of the pipeline.                 *)
(***************************************************************************)
EXTENDS Integers, Sequences, FiniteSets, TLC

VARIABLES
  mDisplayData,   \* PushHardware::DisplayData (flags, error code, transfer buffer)
  mScreenBuffer,  \* PushHardware::mScreenBuffer, 16-bit pixels
  usb,            \* the device layer: transfers outstanding, writes accepted
  lastCall,       \* what the most recent submitScreen call saw and did
  framesAccepted, \* submitScreen calls that reached the copy-and-send stage
  lifecycle,      \* "alive" until ~PushHardware has run
  teardown,       \* what ~PushHardware did
  lastLight,      \* the most recent MIDI-side operation and its arguments
  midiMsg,        \* the message that operation received (onMessage)
  decoded,        \* the events it passed to mInputCallback
  midiSent,       \* the messages it sent through mpMidiOut, in order
  mEventQueue,    \* AbleDoom::mEventQueue
  mShiftHeld,     \* AbleDoom::mShiftHeld
  produced,       \* SpecRace: key events onInput has pushed, in order
  delivered,      \* SpecRace: key events fetchEvent has returned, in order
  inputCtx,       \* the MIDI input thread's position inside onInput
  frameCtx,       \* the frame loop's position inside fetchEvent
  inputLog,       \* SpecInput: control events onInput has received, in order
  keyOut,         \* DG_GetKey: *pressed, *doomKey and the value it returned
  lastCalc,       \* the most recent call of a pure function, with its result
  lastBlit,       \* the most recent rectangular copyToScreen call
  blitCount,      \* rectangular copyToScreen calls made so far
  build,          \* the platform the program was built for
  player,         \* the game's players[consoleplayer], as the mapper reads it
  mLastButtonCounts, \* AbleDoom::mLastHealth/Armor/AmmoButtonCount
  barLeds,        \* the device: the value each button of the status bars shows
  lastFrame       \* what the most recent drawFrame call saw and did

displayVars == <<mDisplayData, mScreenBuffer, usb, lastCall, framesAccepted,
                 lifecycle, teardown>>
midiVars == <<midiMsg, decoded, midiSent, lastLight>>
queueVars == <<mEventQueue, mShiftHeld, produced, delivered, inputCtx, frameCtx>>
inputVars == <<inputLog, keyOut>>
\* the state of the frame loop's side of AbleDoom and of its caller
calcVars == <<lastCalc>>
blitVars == <<lastBlit, blitCount>>
statusVars == <<build, player, mLastButtonCounts, barLeds>>
frameVars == <<lastFrame>>
appVars == <<inputVars, calcVars, blitVars, statusVars, frameVars>>
vars == <<mDisplayData, mScreenBuffer, usb, lastCall, framesAccepted,
          lifecycle, teardown, midiMsg, decoded, midiSent, lastLight,
          mEventQueue, mShiftHeld, produced, delivered, inputCtx, frameCtx,
          inputLog, keyOut, lastCalc, lastBlit, blitCount,
          build, player, mLastButtonCounts, barLeds, lastFrame>>

---------------------------------------------------------------------------
(* Bounds of the model *)

\* 32-bit words in the transfer buffer (the device has 1024 * 160 * 2 / 4)
ScreenWords == 2
\* frames submitScreen may accept in one run
MaxFrames == 2
\* key events onInput may push in one run
MaxEvents == 3
\* control events onInput may receive in one single-context run
MaxInputs == 4
\* width and height of the source frame (the program has 320 and 200)
SourceColumns == 2
SourceRows == 3
\* rectangular copyToScreen calls in one run of SpecBlit
MaxBlits == 1

---------------------------------------------------------------------------
(* Bit arithmetic *)

RECURSIVE BitXor(_, _, _)
\* the bitwise exclusive or of two n-bit numbers
BitXor(a, b, n) ==
  IF n = 0 THEN 0
  ELSE (((a % 2) + (b % 2)) % 2) + 2 * BitXor(a \div 2, b \div 2, n - 1)

Xor8(a, b) == BitXor(a, b, 8)

---------------------------------------------------------------------------
(* Display: buffers *)

PixelCount == 2 * ScreenWords
PUSH_SCREEN_SIZE_BYTES == PixelCount * 2

PixelIdx == 0 .. (PixelCount - 1)
ByteIdx == 0 .. (PUSH_SCREEN_SIZE_BYTES - 1)

\* the number of elements of a buffer (std::vector::size)
SizeOf(buffer) == Cardinality(DOMAIN buffer)

\* mScreenBuffer.resize(): value-initialised pixels
BlankScreen == [i \in PixelIdx |-> 0]
\* mUsbTransferBuffer.resize(): value-initialised bytes
BlankTransferBuffer == [i \in ByteIdx |-> 0]

\* raw images handed to copyToScreen(const uint16_t*)
RawImages ==
  { [i \in PixelIdx |-> 65535],
    [i \in PixelIdx |-> IF i % 2 = 0 THEN 62439 ELSE 65511],
    [i \in PixelIdx |-> (i * 4951 + 3855) % 65536] }

\* std::memcpy of the uint16_t screen buffer into the uint8_t transfer
\* buffer (little-endian host: low byte first)
ScreenBytes(screen) ==
  [i \in 0 .. (2 * SizeOf(screen) - 1) |->
     IF i % 2 = 0 THEN screen[i \div 2] % 256 ELSE screen[i \div 2] \div 256]

\* 0xffe7f3e7 as it lies in memory on the little-endian host
SHAPING_PATTERN == <<231, 243, 231, 255>>

\* the loop of applySignalShapingPattern with its last word left out
applySignalShapingPattern_shortLoop(buffer) ==
  [i \in DOMAIN buffer |->
     IF i \div 4 < (SizeOf(buffer) \div 4) - 1
     THEN Xor8(buffer[i], SHAPING_PATTERN[(i % 4) + 1])
     ELSE buffer[i]]

\* pBufferDataAsUint32[i] ^= 0xffe7f3e7 for i < PUSH_SCREEN_SIZE_BYTES / 4,
\* PUSH_SCREEN_SIZE_BYTES being the size of the buffer
applySignalShapingPattern(buffer) ==
  [i \in DOMAIN buffer |->
     IF i \div 4 < SizeOf(buffer) \div 4
     THEN Xor8(buffer[i], SHAPING_PATTERN[(i % 4) + 1])
     ELSE buffer[i]]

---------------------------------------------------------------------------
(* Display: the screen geometry and the pixel converter *)

\* The program has a source frame of 320 x 200 and a device screen of
\* 960 x 160 at a stride of 1024. The model keeps these proportions for a
\* source frame of SourceColumns x SourceRows.
DOOMGENERIC_RESX == SourceColumns
DOOMGENERIC_RESY == SourceRows
PUSH_SCREEN_WIDTH == 3 * DOOMGENERIC_RESX
PUSH_SCREEN_HEIGHT == (4 * DOOMGENERIC_RESY) \div 5
PUSH_SCREEN_STRIDE == PUSH_SCREEN_WIDTH + ((PUSH_SCREEN_WIDTH + 14) \div 15)

\* mScreenBuffer.resize(PUSH_SCREEN_STRIDE * PUSH_SCREEN_HEIGHT)
ScreenCells == 0 .. (PUSH_SCREEN_STRIDE * PUSH_SCREEN_HEIGHT - 1)
\* DG_ScreenBuffer: DOOMGENERIC_RESX * DOOMGENERIC_RESY pixels
SourceCells == 0 .. (DOOMGENERIC_RESX * DOOMGENERIC_RESY - 1)

\* a uint32_t colour 0xAARRGGBB, given by its four bytes
Color32(a, r, g, b) == [a |-> a, r |-> r, g |-> g, b |-> b]

\* the colours the pixel converter is applied to on its own
ByteSamples == {0, 1, 7, 8, 128, 248, 255}
Colors ==
  { Color32(a, r, g, b) :
      a \in {0, 255}, r \in ByteSamples, g \in ByteSamples, b \in ByteSamples }

\* the converter packing red into the high bits (RGB565)
toBGR565_redHigh(color) ==
  LET r == color.r
      g == color.g
      b == color.b
  IN ((((r \div 8) * 8) * 256) + (((g \div 4) * 4) * 8) + (b \div 8)) % 65536

\* toBGR565: r, g, b are the masked and shifted bytes of color;
\* ((b & 0xF8) << 8) | ((g & 0xFC) << 3) | (r >> 3), the three fields not
\* overlapping, returned as uint16_t
toBGR565(color) ==
  LET r == color.r
      g == color.g
      b == color.b
  IN ((((b \div 8) * 8) * 256) + (((g \div 4) * 4) * 8) + (r \div 8)) % 65536

\* source frames handed to drawFrame and copyToScreen
SourceFrames ==
  { [i \in SourceCells |->
       Color32(255, (i * 37 + 200) % 256, (i * 91 + 17) % 256, (i * 53 + 101) % 256)],
    [i \in SourceCells |->
       Color32(0, (i * 8 + 8) % 256, (i * 4 + 132) % 256, (255 - i * 8) % 256)] }

\* the static controls help image, a raw image of the size of the screen
CONTROLS_IMAGE == [i \in ScreenCells |-> (i * 4951 + 3855) % 65536]

\* srcBuffer[index]; a read outside the source frame yields whatever lies
\* there (stray)
SourcePixel(srcBuffer, index, stray) ==
  IF index \in DOMAIN srcBuffer THEN srcBuffer[index] ELSE stray

\* PushHardware::copyToScreen(srcBuffer, srcX, srcY, srcWidth, srcHeight,
\* destX, destY): the two clamps, then the loops over y and x storing
\* toBGR565(srcBuffer[x + srcX + (y + srcY) * DOOMGENERIC_RESX]) at index
\* destX + x + (y + destY) * PUSH_SCREEN_STRIDE. Returns the screen buffer
\* left behind and the indices stored to; an index outside the buffer is a
\* store outside the vector. A cell stored to more than once keeps the last
\* store, the one of the greatest y.
copyToScreen(screen, srcBuffer, srcX, srcY, srcWidth, srcHeight, destX, destY, stray) ==
  LET w == IF destX + srcWidth >= PUSH_SCREEN_WIDTH
           THEN PUSH_SCREEN_WIDTH - destX ELSE srcWidth
      h == IF destY + srcHeight >= PUSH_SCREEN_HEIGHT
           THEN PUSH_SCREEN_HEIGHT - destY ELSE srcHeight
      rowsOf(i) ==
        { y \in 0 .. (h - 1) :
            /\ i - destX - (y + destY) * PUSH_SCREEN_STRIDE >= 0
            /\ i - destX - (y + destY) * PUSH_SCREEN_STRIDE < w }
      lastRow(i) == CHOOSE y \in rowsOf(i) : \A z \in rowsOf(i) : z <= y
      columnAt(i, y) == i - destX - (y + destY) * PUSH_SCREEN_STRIDE
  IN [ screen |->
         [ i \in DOMAIN screen |->
             IF rowsOf(i) = {} THEN screen[i]
             ELSE toBGR565(SourcePixel(srcBuffer,
                    columnAt(i, lastRow(i)) + srcX
                      + (lastRow(i) + srcY) * DOOMGENERIC_RESX, stray)) ],
       cells |->
         { destX + x + (y + destY) * PUSH_SCREEN_STRIDE :
             x \in 0 .. (w - 1), y \in 0 .. (h - 1) } ]

---------------------------------------------------------------------------
(* Display: the device layer (libusb) *)

\* LIBUSB_ERROR_IO, LIBUSB_ERROR_NO_DEVICE
LibusbErrors == {-1, -4}

DISPLAY_FRAME_HEADER == <<255, 204, 170, 136, 0, 0, 0, 0, 0, 0, 0, 0, 0, 0, 0, 0>>
DISPLAY_ENDPOINT == 1

Transfers == {"mpHeaderTransfer", "mpDataTransfer"}

\* how a transfer can resolve: its status and whether actual_length = length
Completions ==
  { [status |-> "LIBUSB_TRANSFER_COMPLETED", full |-> TRUE],
    [status |-> "LIBUSB_TRANSFER_COMPLETED", full |-> FALSE],
    [status |-> "LIBUSB_TRANSFER_ERROR", full |-> FALSE] }

InitUsb ==
  [ outstanding |-> <<>>,     \* submitted, completion callback not yet run
    writes |-> <<>>,          \* bulk writes the device layer accepted, in order
    busySubmits |-> 0,        \* submissions of a transfer still outstanding
    badCompletion |-> FALSE ] \* some completion reported an error or a short write

InitDisplayData ==
  [ mTransferFailed |-> FALSE,
    mDisplayError |-> 0,
    mTransferInProgress |-> FALSE,
    mUsbTransferBuffer |-> BlankTransferBuffer ]

\* libusb_fill_bulk_transfer: the endpoint and buffer each transfer writes
TransferWrite(d, transfer, screen) ==
  IF transfer = "mpHeaderTransfer"
  THEN [ transfer |-> transfer, endpoint |-> DISPLAY_ENDPOINT,
         data |-> DISPLAY_FRAME_HEADER, screen |-> <<>> ]
  ELSE [ transfer |-> transfer, endpoint |-> DISPLAY_ENDPOINT,
         data |-> d.mUsbTransferBuffer, screen |-> screen ]

\* libusb_submit_transfer(transfer), answering `answer` unless the transfer
\* is still outstanding (LIBUSB_ERROR_BUSY, -6); returns the device layer's
\* state and the result
SubmitTransfer(d, u, transfer, answer, screen) ==
  IF \E i \in 1 .. Len(u.outstanding) : u.outstanding[i] = transfer
  THEN [ u |-> [u EXCEPT !.busySubmits = @ + 1], result |-> -6 ]
  ELSE IF answer < 0
  THEN [ u |-> u, result |-> answer ]
  ELSE [ u |-> [u EXCEPT !.outstanding = Append(@, transfer),
                         !.writes = Append(@, TransferWrite(d, transfer, screen))],
         result |-> 0 ]

\* the callback clearing mTransferInProgress for either transfer
onTransferFinished_anyTransfer(d, transfer, completion) ==
  IF completion.status # "LIBUSB_TRANSFER_COMPLETED" \/ ~completion.full
  THEN [d EXCEPT !.mTransferFailed = TRUE]
  ELSE [d EXCEPT !.mTransferInProgress = FALSE]

\* the callback checking the status only, not the length
onTransferFinished_statusOnly(d, transfer, completion) ==
  IF completion.status # "LIBUSB_TRANSFER_COMPLETED"
  THEN [d EXCEPT !.mTransferFailed = TRUE]
  ELSE IF transfer = "mpDataTransfer"
  THEN [d EXCEPT !.mTransferInProgress = FALSE]
  ELSE d

\* the callback never clearing mTransferInProgress
onTransferFinished_neverIdle(d, transfer, completion) ==
  IF completion.status # "LIBUSB_TRANSFER_COMPLETED" \/ ~completion.full
  THEN [d EXCEPT !.mTransferFailed = TRUE]
  ELSE d

\* the completion callback: a failure or a short write is recorded; the
\* payload's successful completion in full clears mTransferInProgress
onTransferFinished(d, transfer, completion) ==
  IF completion.status # "LIBUSB_TRANSFER_COMPLETED" \/ ~completion.full
  THEN [d EXCEPT !.mTransferFailed = TRUE]
  ELSE IF transfer = "mpDataTransfer"
  THEN [d EXCEPT !.mTransferInProgress = FALSE]
  ELSE d

RECURSIVE HandleEvents(_, _, _)
\* libusb_handle_events_timeout: runs the callback of the transfers that
\* have resolved. Both transfers are queued on endpoint 0x1, so they
\* resolve in the order they were submitted.
HandleEvents(d, u, completions) ==
  IF completions = <<>> \/ u.outstanding = <<>>
  THEN [ d |-> d, u |-> u ]
  ELSE LET c == Head(completions)
           bad == c.status # "LIBUSB_TRANSFER_COMPLETED" \/ ~c.full
       IN HandleEvents(
            onTransferFinished(d, Head(u.outstanding), c),
            [u EXCEPT !.outstanding = Tail(@),
                      !.badCompletion = @ \/ bad],
            Tail(completions))

\* the completions one call of libusb_handle_events_timeout may service
CompletionRuns(u) ==
  UNION { [1 .. n -> Completions] : n \in 0 .. Len(u.outstanding) }

---------------------------------------------------------------------------
(* Display: submitScreen *)

\* submitDisplayFrameTransfer sending the payload before the header
submitDisplayFrameTransfer_dataFirst(d, u, headerAnswer, dataAnswer, screen) ==
  LET s1 == SubmitTransfer(d, u, "mpDataTransfer", dataAnswer, screen) IN
  IF s1.result < 0
  THEN [ d |-> [d EXCEPT !.mDisplayError = s1.result], u |-> s1.u ]
  ELSE LET s2 == SubmitTransfer(d, s1.u, "mpHeaderTransfer", headerAnswer, screen) IN
       IF s2.result < 0
       THEN [ d |-> [d EXCEPT !.mDisplayError = s2.result], u |-> s2.u ]
       ELSE [ d |-> [d EXCEPT !.mTransferInProgress = TRUE], u |-> s2.u ]

\* header first; the payload only if the header was accepted; in progress
\* only if both were
submitDisplayFrameTransfer(d, u, headerAnswer, dataAnswer, screen) ==
  LET s1 == SubmitTransfer(d, u, "mpHeaderTransfer", headerAnswer, screen) IN
  IF s1.result < 0
  THEN [ d |-> [d EXCEPT !.mDisplayError = s1.result], u |-> s1.u ]
  ELSE LET s2 == SubmitTransfer(d, s1.u, "mpDataTransfer", dataAnswer, screen) IN
       IF s2.result < 0
       THEN [ d |-> [d EXCEPT !.mDisplayError = s2.result], u |-> s2.u ]
       ELSE [ d |-> [d EXCEPT !.mTransferInProgress = TRUE], u |-> s2.u ]

\* submitScreen pumping whatever has been recorded
PumpsEvents_always(d) == TRUE

\* submitScreen pumps only while no failure has been recorded
PumpsEvents(d) == ~d.mTransferFailed /\ d.mDisplayError >= 0

\* if (mDisplayData.mTransferFailed) throw
RaisesTransferFailed(d) == d.mTransferFailed

DropsFrame_never(d) == FALSE

\* if (mDisplayData.mTransferInProgress) return
DropsFrame(d) == d.mTransferInProgress

\* memcpy of the screen buffer into the transfer buffer, then the XOR
FillTransferBuffer(d, screen) ==
  [d EXCEPT !.mUsbTransferBuffer = applySignalShapingPattern(ScreenBytes(screen))]

\* One call of PushHardware::submitScreen. pumpResult and completions are
\* what libusb_handle_events_timeout does in this call, headerAnswer and
\* dataAnswer what libusb_submit_transfer answers. Returns the state left
\* behind and how the call ended.
submitScreen(d, u, screen, pumpResult, completions, headerAnswer, dataAnswer) ==
  LET pumped == PumpsEvents(d)
      p == IF pumped THEN HandleEvents(d, u, completions) ELSE [d |-> d, u |-> u]
      serviced == Len(u.outstanding) - Len(p.u.outstanding)
      ended(dd, uu, result, code, accepted) ==
        [ d |-> dd, u |-> uu, result |-> result, code |-> code,
          pumped |-> pumped, pumpResult |-> IF pumped THEN pumpResult ELSE 0,
          serviced |-> serviced, completions |-> SubSeq(completions, 1, serviced),
          accepted |-> accepted ]
      sent(s) == ended(s.d, s.u, "submitted", 0, TRUE)
  IN
  IF pumped /\ pumpResult < 0
  THEN ended(p.d, p.u, "libusb error", pumpResult, FALSE)
  ELSE IF p.d.mDisplayError < 0
  THEN ended(p.d, p.u, "libusb error", p.d.mDisplayError, FALSE)
  ELSE IF RaisesTransferFailed(p.d)
  THEN ended(p.d, p.u, "transfer failed", 0, FALSE)
  ELSE IF DropsFrame(p.d)
  THEN ended(p.d, p.u, "dropped", 0, FALSE)
  ELSE sent(submitDisplayFrameTransfer(
              FillTransferBuffer(p.d, screen), p.u,
              headerAnswer, dataAnswer, screen))

NoCall ==
  [ result |-> "none", code |-> 0, pumped |-> FALSE, pumpResult |-> 0,
    serviced |-> 0, completions |-> <<>>, accepted |-> FALSE,
    before |-> [d |-> InitDisplayData, u |-> InitUsb, screen |-> BlankScreen] ]

SubmitAnswers == {0} \cup LibusbErrors

---------------------------------------------------------------------------
(* Display: actions *)

InitDisplay ==
  /\ mDisplayData = InitDisplayData
  /\ mScreenBuffer = BlankScreen
  /\ usb = InitUsb
  /\ lastCall = NoCall
  /\ framesAccepted = 0
  /\ lifecycle = "alive"
  /\ teardown = [ freed |-> FALSE, inFlight |-> FALSE,
                  outstandingAtFree |-> <<>>, deadlineElapsed |-> FALSE ]

\* PushHardware::copyToScreen(const uint16_t* data)
CopyToScreenRaw ==
  /\ lifecycle = "alive"
  /\ \E data \in RawImages : mScreenBuffer' = data
  /\ UNCHANGED <<mDisplayData, usb, lastCall, framesAccepted, lifecycle, teardown>>
  /\ UNCHANGED <<midiVars, queueVars>>
  /\ UNCHANGED appVars

\* PushHardware::submitScreen()
SubmitScreen ==
  /\ lifecycle = "alive"
  /\ framesAccepted < MaxFrames
  /\ \E pumpResult \in (IF PumpsEvents(mDisplayData) THEN {0} \cup LibusbErrors ELSE {0}),
        completions \in (IF PumpsEvents(mDisplayData) THEN CompletionRuns(usb) ELSE {<<>>}),
        headerAnswer \in SubmitAnswers, dataAnswer \in SubmitAnswers :
       LET r == submitScreen(mDisplayData, usb, mScreenBuffer,
                             pumpResult, completions, headerAnswer, dataAnswer)
       IN /\ mDisplayData' = r.d
          /\ usb' = r.u
          /\ framesAccepted' = IF r.accepted THEN framesAccepted + 1 ELSE framesAccepted
          /\ lastCall' =
               [ result |-> r.result, code |-> r.code, pumped |-> r.pumped,
                 pumpResult |-> r.pumpResult, serviced |-> r.serviced,
                 completions |-> r.completions, accepted |-> r.accepted,
                 before |-> [d |-> mDisplayData, u |-> usb, screen |-> mScreenBuffer] ]
  /\ UNCHANGED <<mScreenBuffer, lifecycle, teardown>>
  /\ UNCHANGED <<midiVars, queueVars>>
  /\ UNCHANGED appVars

\* PushHardware::~PushHardware(): one libusb_handle_events_timeout call with
\* a 30 s timeout, its result ignored, then both transfers are freed and the
\* device released. With transfers outstanding the call returns as soon as
\* it has handled an event (one or more completions serviced), or when the
\* 30 s have passed without one (elapsed).
Destroy ==
  /\ lifecycle = "alive"
  /\ \E completions \in CompletionRuns(usb), elapsed \in BOOLEAN :
       /\ elapsed => completions = <<>>
       /\ (completions = <<>> /\ usb.outstanding # <<>>) => elapsed
       /\ LET p == HandleEvents(mDisplayData, usb, completions)
          IN /\ mDisplayData' = p.d
             /\ usb' = p.u
             /\ teardown' = [ freed |-> TRUE,
                              inFlight |-> mDisplayData.mTransferInProgress,
                              outstandingAtFree |-> p.u.outstanding,
                              deadlineElapsed |-> elapsed ]
  /\ lifecycle' = "destroyed"
  /\ UNCHANGED <<mScreenBuffer, lastCall, framesAccepted>>
  /\ UNCHANGED <<midiVars, queueVars>>
  /\ UNCHANGED appVars

---------------------------------------------------------------------------
(* MIDI: decoding input messages *)

Y_TO_PAD_ROW_START == <<92, 84, 76, 68, 60, 52, 44, 36>>

PadId(x, y) == [kind |-> "Pad", x |-> x, y |-> y]
ButtonId(number) == [kind |-> "Button", number |-> number]

\* the pad window without its lower limit
isPad_noLowerLimit(noteNumber) == noteNumber <= 99

isPad(noteNumber) == noteNumber >= 36 /\ noteNumber <= 99

\* the row search comparing with > instead of >=
noteNumberToPadCoordinate_strict(noteNumber) ==
  LET hits == { i \in 1 .. 8 : noteNumber > Y_TO_PAD_ROW_START[i] } IN
  IF hits # {}
  THEN LET i == CHOOSE h \in hits : \A g \in hits : h <= g
       IN << (noteNumber - Y_TO_PAD_ROW_START[i]) % 256, i - 1 >>
  ELSE << 0, 0 >>

\* std::find_if: the first row start the note number is >= to; the column
\* is the offset from it, both as uint8_t
noteNumberToPadCoordinate(noteNumber) ==
  LET hits == { i \in 1 .. 8 : noteNumber >= Y_TO_PAD_ROW_START[i] } IN
  IF hits # {}
  THEN LET i == CHOOSE h \in hits : \A g \in hits : h <= g
       IN << (noteNumber - Y_TO_PAD_ROW_START[i]) % 256, i - 1 >>
  ELSE << 0, 0 >>

\* the decoder taking every non-zero control value as a press
onMessage_pressedIfNonZero(pMessage) ==
  IF Len(pMessage) # 3 THEN <<>>
  ELSE LET type == (pMessage[1] \div 16) * 16
           number == pMessage[2]
           value == pMessage[3]
           xy == noteNumberToPadCoordinate(number)
       IN CASE type = 144 ->
                 IF isPad(number)
                 THEN << [id |-> PadId(xy[1], xy[2]), pressed |-> TRUE] >>
                 ELSE <<>>
            [] type = 128 ->
                 IF isPad(number)
                 THEN << [id |-> PadId(xy[1], xy[2]), pressed |-> FALSE] >>
                 ELSE <<>>
            [] type = 176 ->
                 << [id |-> ButtonId(number), pressed |-> (value # 0)] >>
            [] OTHER -> <<>>

\* PushHardware::onMessage: the events handed to mInputCallback (none or one)
onMessage(pMessage) ==
  IF Len(pMessage) # 3 THEN <<>>
  ELSE LET type == (pMessage[1] \div 16) * 16
           number == pMessage[2]
           value == pMessage[3]
           xy == noteNumberToPadCoordinate(number)
       IN CASE type = 144 ->
                 IF isPad(number)
                 THEN << [id |-> PadId(xy[1], xy[2]), pressed |-> TRUE] >>
                 ELSE <<>>
            [] type = 128 ->
                 IF isPad(number)
                 THEN << [id |-> PadId(xy[1], xy[2]), pressed |-> FALSE] >>
                 ELSE <<>>
            [] type = 176 ->
                 << [id |-> ButtonId(number), pressed |-> (value = 127)] >>
            [] OTHER -> <<>>

\* the messages the input port delivers in the model: note off, note on
\* (two channels), control change, with every number and the two extreme
\* values; then other values, other kinds and other lengths
StatusBytes == {128, 144, 154, 176}
ValueBytes == {0, 127}
MidiMessages ==
  { <<s, n, v>> : s \in StatusBytes, n \in 0 .. 127, v \in ValueBytes }
  \cup { <<144, 36, 100>>, <<128, 99, 64>>, <<179, 49, 127>>, <<176, 49, 126>>,
         <<176, 82, 1>>, <<160, 36, 127>>, <<224, 0, 64>>, <<144, 200, 100>>,
         <<>>, <<248>>, <<144, 36>>, <<144, 36, 100, 0>> }

---------------------------------------------------------------------------
(* MIDI: LED output *)

\* PushHardware::setButtonLight: one control change message
setButtonLight(number, value) == << <<176, number % 256, value % 256>> >>

\* the note number computed with the row and column swapped
PadNoteNumber_swapped(x, y) == Y_TO_PAD_ROW_START[x + 1] + y

\* const auto noteNumber = Y_TO_PAD_ROW_START[y] + x
PadNoteNumber(x, y) == Y_TO_PAD_ROW_START[y + 1] + x

\* PushHardware::setPadLight: note off for value 0, note on otherwise
setPadLight(x, y, value) ==
  IF value = 0
  THEN << <<128, PadNoteNumber(x, y) % 256, 0>> >>
  ELSE << <<144, PadNoteNumber(x, y) % 256, value % 256>> >>

SkippedButtons == {52, 53, 66, 67, 68, 97, 98, 99, 100, 101}

\* the array filled from index 0, overwriting the two leading entries
kAllButtons_fromIndex0 ==
  [ index \in 0 .. 101 |->
      IF index <= 99 /\ (20 + index) \notin SkippedButtons THEN 20 + index ELSE 0 ]

\* std::array<uint8_t, 102> result{3, 9}: the other entries start as 0; the
\* loop visits value = 20 .. 119 with index = value - 18 and stores value
\* unless it is one of the skipped numbers (index advances either way)
kAllButtons ==
  [ index \in 0 .. 101 |->
      IF index = 0 THEN 3
      ELSE IF index = 1 THEN 9
      ELSE IF (index + 18) \in SkippedButtons THEN 0
      ELSE index + 18 ]

\* PushHardware::resetLEDs: setButtonLight(button, 0) for every entry of
\* kAllButtons, then setPadLight(x, y, 0) row by row
resetLEDs ==
  [ k \in 1 .. 166 |->
      IF k <= 102
      THEN setButtonLight(kAllButtons[k - 1], 0)[1]
      ELSE setPadLight((k - 103) % 8, (k - 103) \div 8, 0)[1] ]

LightValues == {0, 122}

---------------------------------------------------------------------------
(* Control mapper: the key-event queue *)

INPUT_MAPPING_TABLE ==
  << [id |-> PadId(0, 3), doomKey |-> "KEY_FIRE", color |-> <<>>],
     [id |-> PadId(1, 3), doomKey |-> "KEY_LALT", color |-> <<>>],
     [id |-> PadId(2, 3), doomKey |-> "KEY_USE", color |-> <<>>],
     [id |-> PadId(2, 5), doomKey |-> "KEY_RSHIFT", color |-> <<>>],
     [id |-> PadId(6, 2), doomKey |-> "KEY_UPARROW", color |-> <<>>],
     [id |-> PadId(5, 3), doomKey |-> "KEY_LEFTARROW", color |-> <<>>],
     [id |-> PadId(6, 3), doomKey |-> "KEY_DOWNARROW", color |-> <<>>],
     [id |-> PadId(7, 3), doomKey |-> "KEY_RIGHTARROW", color |-> <<>>],
     [id |-> ButtonId(91), doomKey |-> "KEY_ENTER", color |-> <<>>],
     [id |-> ButtonId(33), doomKey |-> "KEY_ESCAPE", color |-> <<>>],
     [id |-> ButtonId(46), doomKey |-> "KEY_UPARROW", color |-> <<>>],
     [id |-> ButtonId(47), doomKey |-> "KEY_DOWNARROW", color |-> <<>>],
     [id |-> ButtonId(82), doomKey |-> "KEY_F6", color |-> <<>>],
     [id |-> PadId(0, 0), doomKey |-> "1", color |-> <<121>>],
     [id |-> PadId(1, 0), doomKey |-> "2", color |-> <<121>>],
     [id |-> PadId(2, 0), doomKey |-> "3", color |-> <<121>>],
     [id |-> PadId(3, 0), doomKey |-> "4", color |-> <<121>>],
     [id |-> PadId(4, 0), doomKey |-> "5", color |-> <<121>>],
     [id |-> PadId(5, 0), doomKey |-> "6", color |-> <<121>>],
     [id |-> PadId(6, 0), doomKey |-> "7", color |-> <<121>>] >>

SHIFT_BUTTON == 49

\* the Shift button's release not clearing mShiftHeld
ShiftAfter_sticky(shiftHeld, input) ==
  IF input.id = ButtonId(SHIFT_BUTTON) THEN (shiftHeld \/ input.pressed) ELSE shiftHeld

\* the first part of AbleDoom::onInput: the Shift button sets mShiftHeld
ShiftAfter(shiftHeld, input) ==
  IF input.id = ButtonId(SHIFT_BUTTON) THEN input.pressed ELSE shiftHeld

\* the lookup taking the last table row with an equal id and reporting
\* every event as a press
KeyEventsFor_alwaysPressed(shiftHeld, input) ==
  LET hits == { i \in 1 .. Len(INPUT_MAPPING_TABLE) :
                  INPUT_MAPPING_TABLE[i].id = input.id }
  IN IF hits = {} THEN <<>>
     ELSE LET iMapping == CHOOSE h \in hits : \A g \in hits : h >= g
              doomKey == INPUT_MAPPING_TABLE[iMapping].doomKey
              key == IF doomKey = "KEY_F6" /\ ShiftAfter(shiftHeld, input)
                     THEN "KEY_F9" ELSE doomKey
          IN << [key |-> key, pressed |-> TRUE] >>

\* the second part: the key event onInput pushes for the input (none or
\* one), from the first table row with an equal id
KeyEventsFor(shiftHeld, input) ==
  LET hits == { i \in 1 .. Len(INPUT_MAPPING_TABLE) :
                  INPUT_MAPPING_TABLE[i].id = input.id }
  IN IF hits = {} THEN <<>>
     ELSE LET iMapping == CHOOSE h \in hits : \A g \in hits : h <= g
              doomKey == INPUT_MAPPING_TABLE[iMapping].doomKey
              key == IF doomKey = "KEY_F6" /\ ShiftAfter(shiftHeld, input)
                     THEN "KEY_F9" ELSE doomKey
          IN << [key |-> key, pressed |-> input.pressed] >>

\* AbleDoom::onInput run without interruption
onInput(queue, shiftHeld, input) ==
  [ queue |-> queue \o KeyEventsFor(shiftHeld, input),
    shiftHeld |-> ShiftAfter(shiftHeld, input) ]

RECURSIVE onInputs(_, _, _)
\* mInputCallback called for each decoded event in turn
onInputs(queue, shiftHeld, inputs) ==
  IF inputs = <<>> THEN [queue |-> queue, shiftHeld |-> shiftHeld]
  ELSE LET r == onInput(queue, shiftHeld, Head(inputs))
       IN onInputs(r.queue, r.shiftHeld, Tail(inputs))

\* fetchEvent returning the newest event instead of the oldest
fetchEvent_newestFirst(queue) ==
  IF queue = <<>>
  THEN [ queue |-> queue, oEvent |-> <<>> ]
  ELSE [ queue |-> SubSeq(queue, 1, Len(queue) - 1),
         oEvent |-> << queue[Len(queue)] >> ]

\* AbleDoom::fetchEvent: nothing for an empty queue, else the front, which
\* pop_front removes; oEvent is the std::optional (no or one event)
fetchEvent(queue) ==
  IF queue = <<>>
  THEN [ queue |-> queue, oEvent |-> <<>> ]
  ELSE [ queue |-> Tail(queue), oEvent |-> << Head(queue) >> ]

\* DG_GetKey(pressed, doomKey): the outputs are written, and 1 returned, only
\* when fetchEvent returned an event
DG_GetKey(queue, out) ==
  LET f == fetchEvent(queue) IN
  IF f.oEvent # <<>>
  THEN [ queue |-> f.queue,
         out |-> [ pressed |-> IF f.oEvent[1].pressed THEN 1 ELSE 0,
                   doomKey |-> f.oEvent[1].key,
                   result |-> 1 ] ]
  ELSE [ queue |-> f.queue, out |-> [out EXCEPT !.result = 0] ]

\* controls the input port reports in SpecInput: a mapped pad, Save, Shift,
\* a mapped button and a button without a mapping
ControlEvents ==
  { [id |-> id, pressed |-> pressed] :
      id \in {PadId(0, 3), ButtonId(82), ButtonId(SHIFT_BUTTON), ButtonId(46),
              ButtonId(50)},
      pressed \in BOOLEAN }

---------------------------------------------------------------------------
(* Control mapper: the status bars *)

Abs(n) == IF n < 0 THEN 0 - n ELSE n

\* float(n) for an int n with |n| <= 2^30: n rounded to a significand of
\* 24 bits, ties to even. The result is again an integer.
Float(n) ==
  LET e == CHOOSE k \in 0 .. 7 :
             /\ Abs(n) \div 16777216 < 2 ^ k
             /\ \A j \in 0 .. (k - 1) : Abs(n) \div 16777216 >= 2 ^ j
      ulp == 2 ^ e
      low == (Abs(n) \div ulp) * ulp
      rest == Abs(n) - low
      rounded == IF 2 * rest < ulp THEN low
                 ELSE IF 2 * rest > ulp THEN low + ulp
                 ELSE IF (low \div ulp) % 2 = 0 THEN low ELSE low + ulp
  IN IF n < 0 THEN 0 - rounded ELSE rounded

\* For floats 0 < a < b <= 2^26 holding integers: the float quotient a / b
\* is at least (2k + 1) / 16, that is, std::round((a / b) * 8.0f) > k. The
\* quotient is rounded to 24 bits, so it reaches (2k + 1) / 16 when the exact
\* quotient is at most half a unit in the last place below it: 2^-29 for
\* k = 0, 2^-27 for k = 1, 2^-26 for k = 2, 3 and 2^-25 for k >= 4.
QuotientReaches(a, b, k) ==
  LET deficit == (2 * k + 1) * b - 16 * a
      halfUlp == IF k = 0 THEN 33554432
                 ELSE IF k = 1 THEN 8388608
                 ELSE IF k <= 3 THEN 4194304
                 ELSE 2097152
  IN deficit <= b \div halfUlp

\* The platforms the program is built for. The conversion of a float to
\* int is undefined when the float is a NaN or outside the range of int;
\* what it yields is the platform's: INT_MIN in every such case on x86-64
\* (cvttss2si); 0 for a NaN and the nearest end of the range otherwise on
\* AArch64 (fcvtzs).
Builds == {"x86-64", "AArch64"}

\* std::clamp(int(f), 0, 8) for such a float f: a NaN ("nan"), a float
\* >= 2^31 ("above") or < -2^31 ("below")
ClampedUndefinedInt(kind, platform) ==
  IF platform = "AArch64" /\ kind = "above" THEN 8 ELSE 0

\* valueToButtonCount(value, max) for |value| <= 2^30 and |max| <= 2^26:
\* std::clamp(int(std::round((float(value) / float(max)) * 8.0f)), 0, 8).
\* The float is a NaN or an infinity for max = 0 and outside the range of
\* int for 8 * quotient >= 2^31 or < -2^31.
valueToButtonCount(value, max, platform) ==
  LET a == IF max < 0 THEN 0 - Float(value) ELSE Float(value)
      b == Abs(Float(max))
  IN IF b = 0
     THEN ClampedUndefinedInt(IF a = 0 THEN "nan"
                              ELSE IF a > 0 THEN "above" ELSE "below", platform)
     ELSE IF a <= 0
     THEN IF b <= 7 /\ 0 - a > b * 268435472
          THEN ClampedUndefinedInt("below", platform) ELSE 0
     ELSE IF a >= b
     THEN IF b <= 7 /\ a >= b * 268435448
          THEN ClampedUndefinedInt("above", platform) ELSE 8
     ELSE Cardinality({ k \in 0 .. 7 : QuotientReaches(a, b, k) })

\* what the mapper reads from the game: players[consoleplayer].health and
\* .armorpoints, getCurrentAmmo() and getCurrentMaxAmmo() (both 0 for a
\* weapon without ammunition)
Player(health, armorpoints, ammo, maxammo) ==
  [health |-> health, armorpoints |-> armorpoints, ammo |-> ammo, maxammo |-> maxammo]

\* a fresh player; one hurt, one with armor, one with full ammunition and
\* one not yet spawned, whose weapon has no ammunition
Players ==
  { Player(100, 0, 50, 200), Player(40, 0, 50, 200), Player(100, 100, 50, 200),
    Player(100, 0, 200, 200), Player(0, 0, 0, 0) }

\* the three levels as AbleDoom::AbleDoom and updateHealthArmorDisplay
\* compute them (max defaults to 100)
ButtonCounts(p, platform) ==
  [ health |-> valueToButtonCount(p.health, 100, platform),
    armor |-> valueToButtonCount(p.armorpoints, 100, platform),
    ammo |-> valueToButtonCount(p.ammo, p.maxammo, platform) ]

\* setButtonBarLights lighting the buttons from the far end of the bar
setButtonBarLights_fromEnd(numLitButtons, firstButtonId) ==
  LET colorToUse == IF numLitButtons < 3 THEN 127
                    ELSE IF numLitButtons < 6 THEN 7
                    ELSE 126
  IN [ k \in 1 .. 8 |->
         setButtonLight(firstButtonId + (k - 1),
                        IF (8 - k) < numLitButtons THEN colorToUse ELSE 0)[1] ]

\* setButtonBarLights(push, numLitButtons, firstButtonId): the eight
\* setButtonLight calls, for i = k - 1
setButtonBarLights(numLitButtons, firstButtonId) ==
  LET colorToUse == IF numLitButtons < 3 THEN 127
                    ELSE IF numLitButtons < 6 THEN 7
                    ELSE 126
  IN [ k \in 1 .. 8 |->
         setButtonLight(firstButtonId + (k - 1),
                        IF (k - 1) < numLitButtons THEN colorToUse ELSE 0)[1] ]

\* updateHealthArmorDisplay re-rendering every bar on every call
updateHealthArmorDisplay_always(p, last, platform) ==
  LET counts == ButtonCounts(p, platform)
  IN [ sent |-> setButtonBarLights(counts.health, 102)
                  \o setButtonBarLights(counts.armor, 20)
                  \o setButtonBarLights(counts.ammo, 36),
       last |-> counts ]

\* one bar of updateHealthArmorDisplay: if (count != mLast...ButtonCount)
\* { setButtonBarLights(mHardware, count, firstButtonId); mLast... = count; }
updateBar(count, lastCount, firstButtonId) ==
  IF count # lastCount
  THEN [sent |-> setButtonBarLights(count, firstButtonId), last |-> count]
  ELSE [sent |-> <<>>, last |-> lastCount]

\* AbleDoom::updateHealthArmorDisplay: the messages sent and the counts
\* remembered. A bar is rendered, and its count stored, when its count
\* differs from the remembered one.
updateHealthArmorDisplay(p, last, platform) ==
  LET health == updateBar(valueToButtonCount(p.health, 100, platform),
                          last.health, 102)
      armor == updateBar(valueToButtonCount(p.armorpoints, 100, platform),
                         last.armor, 20)
      ammo == updateBar(valueToButtonCount(p.ammo, p.maxammo, platform),
                        last.ammo, 36)
  IN [ sent |-> health.sent \o armor.sent \o ammo.sent,
       last |-> [health |-> health.last, armor |-> armor.last, ammo |-> ammo.last] ]

\* values and maxima valueToButtonCount is applied to on its own
CountValues ==
  {-1073741824, -100, -1, 0, 1, 6, 7, 12, 13, 31, 32, 50, 99, 100, 101, 150, 200,
   1179652, 1179653, 268435456}
CountMaxima == {1, 3, 16, 50, 100, 200, 2097161}

Idle == [pc |-> "idle"]

InitMidi ==
  /\ lastLight = [op |-> "none"]
  /\ midiMsg = <<>>
  /\ decoded = <<>>
  /\ midiSent = <<>>

InitQueue ==
  /\ mEventQueue = <<>>
  /\ mShiftHeld = FALSE
  /\ produced = <<>>
  /\ delivered = <<>>
  /\ inputCtx = Idle
  /\ frameCtx = Idle

\* the caller's pressed and doomKey variables before the first DG_GetKey
InitInput ==
  /\ inputLog = <<>>
  /\ keyOut = [pressed |-> 0, doomKey |-> "none", result |-> 0]

InitCalls ==
  /\ lastCalc = [fn |-> "none"]
  /\ lastBlit = [op |-> "none"]
  /\ blitCount = 0

\* the member initialisers of AbleDoom::AbleDoom: the three counts are
\* computed from the player, no bar is rendered
\* the buttons of the three status bars, 8 from each first button
StatusBarButtons == (102 .. 109) \cup (20 .. 27) \cup (36 .. 43)

\* what the buttons show once the messages have been sent: the value of the
\* last message for the button, if there is one
LedsAfter(leds, sent) ==
  [ b \in DOMAIN leds |->
      LET hits == { k \in 1 .. Len(sent) : sent[k][1] = 176 /\ sent[k][2] = b }
      IN IF hits = {} THEN leds[b]
         ELSE sent[CHOOSE k \in hits : \A j \in hits : j <= k][3] ]

\* the status bar buttons when AbleDoom::AbleDoom has run: resetLEDs
\* (PushHardware::PushHardware) has turned them off, and the constructor
\* lights the mapped controls and button 49, none of them a bar button
LedsAfterConstruction ==
  LedsAfter(LedsAfter([b \in StatusBarButtons |-> 0], resetLEDs),
            [ k \in 1 .. (Len(INPUT_MAPPING_TABLE) + 1) |->
                IF k > Len(INPUT_MAPPING_TABLE) THEN setButtonLight(SHIFT_BUTTON, 122)[1]
                ELSE LET mapping == INPUT_MAPPING_TABLE[k]
                         color == IF mapping.color = <<>> THEN 122 ELSE mapping.color[1]
                     IN IF mapping.id.kind = "Button"
                        THEN setButtonLight(mapping.id.number, color)[1]
                        ELSE setPadLight(mapping.id.x, mapping.id.y, color)[1] ])

InitStatus(platforms, players) ==
  /\ build \in platforms
  /\ player \in players
  /\ mLastButtonCounts = ButtonCounts(player, build)
  /\ barLeds = LedsAfterConstruction
  /\ lastFrame = [op |-> "none", seen |-> player]

Init ==
  /\ InitDisplay /\ InitMidi /\ InitQueue /\ InitInput /\ InitCalls
  /\ InitStatus({"x86-64"}, {Player(100, 0, 50, 200)})

\* the same for either platform
InitCalc ==
  /\ InitDisplay /\ InitMidi /\ InitQueue /\ InitInput /\ InitCalls
  /\ InitStatus(Builds, {Player(100, 0, 50, 200)})

\* PushHardware::initDisplay with the buffers at the size of the screen
\* geometry, then AbleDoom::AbleDoom's copyToScreen(CONTROLS_IMAGE)
InitAppDisplay ==
  /\ mDisplayData =
       [InitDisplayData EXCEPT
          !.mUsbTransferBuffer =
             [i \in 0 .. (2 * PUSH_SCREEN_STRIDE * PUSH_SCREEN_HEIGHT - 1) |-> 0]]
  /\ mScreenBuffer = CONTROLS_IMAGE
  /\ usb = InitUsb
  /\ lastCall = NoCall
  /\ framesAccepted = 0
  /\ lifecycle = "alive"
  /\ teardown = [ freed |-> FALSE, inFlight |-> FALSE,
                  outstandingAtFree |-> <<>>, deadlineElapsed |-> FALSE ]

\* the state AbleDoom::AbleDoom leaves behind
InitApp ==
  /\ InitAppDisplay /\ InitMidi /\ InitQueue /\ InitInput /\ InitCalls
  /\ InitStatus(Builds, Players)

---------------------------------------------------------------------------
(* MIDI: actions *)

\* PushHardware::onMessage, with AbleDoom::onInput as mInputCallback. The
\* frame loop has drained the queue before the next message arrives.
OnMessage ==
  /\ mEventQueue = <<>>
  /\ \E pMessage \in MidiMessages :
       LET events == onMessage(pMessage)
           r == onInputs(mEventQueue, mShiftHeld, events)
       IN /\ midiMsg' = pMessage
          /\ decoded' = events
          /\ mEventQueue' = r.queue
          /\ mShiftHeld' = r.shiftHeld
  /\ lastLight' = [op |-> "onMessage"]
  /\ midiSent' = <<>>
  /\ UNCHANGED <<produced, delivered, inputCtx, frameCtx>>
  /\ UNCHANGED displayVars
  /\ UNCHANGED appVars

\* AbleDoom::fetchEvent run without interruption
FetchEvent ==
  /\ IF mEventQueue = <<>>
     THEN UNCHANGED mEventQueue
     ELSE mEventQueue' = Tail(mEventQueue)
  /\ UNCHANGED <<mShiftHeld, produced, delivered, inputCtx, frameCtx>>
  /\ UNCHANGED <<midiVars, displayVars>>
  /\ UNCHANGED appVars

\* PushHardware::setButtonLight(number, value)
SetButtonLight ==
  /\ \E number \in 0 .. 127, value \in LightValues :
       /\ lastLight' = [op |-> "setButtonLight", number |-> number, value |-> value]
       /\ midiSent' = setButtonLight(number, value)
  /\ midiMsg' = <<>>
  /\ decoded' = <<>>
  /\ UNCHANGED <<queueVars, displayVars>>
  /\ UNCHANGED appVars

\* PushHardware::setPadLight(x, y, value)
SetPadLight ==
  /\ \E x \in 0 .. 7, y \in 0 .. 7, value \in LightValues :
       /\ lastLight' = [op |-> "setPadLight", x |-> x, y |-> y, value |-> value]
       /\ midiSent' = setPadLight(x, y, value)
  /\ midiMsg' = <<>>
  /\ decoded' = <<>>
  /\ UNCHANGED <<queueVars, displayVars>>
  /\ UNCHANGED appVars

\* setButtonBarLights(mHardware, numLitButtons, firstButtonId) for a level
\* valueToButtonCount can return and the first button of one of the bars
SetButtonBarLights ==
  /\ \E numLitButtons \in 0 .. 8, firstButtonId \in {102, 20, 36} :
       /\ lastLight' = [ op |-> "setButtonBarLights",
                         numLitButtons |-> numLitButtons,
                         firstButtonId |-> firstButtonId ]
       /\ midiSent' = setButtonBarLights(numLitButtons, firstButtonId)
  /\ midiMsg' = <<>>
  /\ decoded' = <<>>
  /\ UNCHANGED <<queueVars, displayVars>>
  /\ UNCHANGED appVars

\* PushHardware::resetLEDs()
ResetLEDs ==
  /\ lastLight' = [op |-> "resetLEDs"]
  /\ midiSent' = resetLEDs
  /\ midiMsg' = <<>>
  /\ decoded' = <<>>
  /\ UNCHANGED <<queueVars, displayVars>>
  /\ UNCHANGED appVars

---------------------------------------------------------------------------
(* The key-event queue under two contexts *)

\* controls the input port reports in SpecRace
RaceInputs ==
  { [id |-> id, pressed |-> pressed] :
      id \in {PadId(0, 3), ButtonId(82), ButtonId(SHIFT_BUTTON), ButtonId(50)},
      pressed \in BOOLEAN }

\* MIDI input thread: onInput up to its call of mEventQueue.push_back,
\* which reads the deque. Nothing orders it against the frame loop.
InputBegin ==
  /\ inputCtx.pc = "idle"
  /\ Len(produced) < MaxEvents
  /\ \E input \in RaceInputs :
       LET events == KeyEventsFor(mShiftHeld, input) IN
       /\ mShiftHeld' = ShiftAfter(mShiftHeld, input)
       /\ inputCtx' = IF events = <<>> THEN Idle
                      ELSE [pc |-> "push_back", event |-> events[1], seen |-> mEventQueue]
  /\ UNCHANGED <<mEventQueue, produced, delivered, frameCtx>>
  /\ UNCHANGED <<midiVars, displayVars>>
  /\ UNCHANGED appVars

\* push_back stores the element and the new end of the deque, computed
\* from the bookkeeping it read then or reads now
InputFinish ==
  /\ inputCtx.pc = "push_back"
  /\ \E base \in {inputCtx.seen, mEventQueue} :
       mEventQueue' = Append(base, inputCtx.event)
  /\ produced' = Append(produced, inputCtx.event)
  /\ inputCtx' = Idle
  /\ UNCHANGED <<mShiftHeld, delivered, frameCtx>>
  /\ UNCHANGED <<midiVars, displayVars>>
  /\ UNCHANGED appVars

\* frame loop: fetchEvent up to its call of mEventQueue.pop_front; an empty
\* queue ends the call at once
FrameBegin ==
  /\ frameCtx.pc = "idle"
  /\ frameCtx' = IF mEventQueue = <<>> THEN Idle
                 ELSE [pc |-> "pop_front", event |-> Head(mEventQueue),
                       seen |-> mEventQueue]
  /\ UNCHANGED <<mEventQueue, mShiftHeld, produced, delivered, inputCtx>>
  /\ UNCHANGED <<midiVars, displayVars>>
  /\ UNCHANGED appVars

\* pop_front stores the new start of the deque, computed from the
\* bookkeeping it read then or reads now; the call returns the front it read
FrameFinish ==
  /\ frameCtx.pc = "pop_front"
  /\ \E base \in {frameCtx.seen, mEventQueue} :
       mEventQueue' = IF base = <<>> THEN <<>> ELSE Tail(base)
  /\ delivered' = Append(delivered, frameCtx.event)
  /\ frameCtx' = Idle
  /\ UNCHANGED <<mShiftHeld, produced, inputCtx>>
  /\ UNCHANGED <<midiVars, displayVars>>
  /\ UNCHANGED appVars

---------------------------------------------------------------------------
(* The key-event queue in a single context *)

\* AbleDoom::onInput(input), run to completion
OnInput ==
  /\ Len(inputLog) < MaxInputs
  /\ \E input \in ControlEvents :
       LET r == onInput(mEventQueue, mShiftHeld, input) IN
       /\ mEventQueue' = r.queue
       /\ mShiftHeld' = r.shiftHeld
       /\ produced' = produced \o SubSeq(r.queue, Len(mEventQueue) + 1, Len(r.queue))
       /\ inputLog' = Append(inputLog, input)
  /\ UNCHANGED <<delivered, inputCtx, frameCtx, keyOut>>
  /\ UNCHANGED <<calcVars, blitVars, statusVars, frameVars>>
  /\ UNCHANGED <<midiVars, displayVars>>

\* DG_GetKey(&pressed, &doomKey), run to completion
GetKey ==
  /\ LET r == DG_GetKey(mEventQueue, keyOut) IN
       /\ mEventQueue' = r.queue
       /\ keyOut' = r.out
       /\ delivered' = IF r.out.result = 1
                       THEN Append(delivered, [key |-> r.out.doomKey,
                                               pressed |-> r.out.pressed = 1])
                       ELSE delivered
  /\ UNCHANGED <<mShiftHeld, produced, inputCtx, frameCtx, inputLog>>
  /\ UNCHANGED <<calcVars, blitVars, statusVars, frameVars>>
  /\ UNCHANGED <<midiVars, displayVars>>

---------------------------------------------------------------------------
(* The pixel converter and the rectangular copy *)

\* toBGR565(color)
ToBGR565 ==
  /\ \E color \in Colors :
       lastCalc' = [fn |-> "toBGR565", color |-> color, result |-> toBGR565(color)]
  /\ UNCHANGED <<inputVars, blitVars, frameVars>>
  /\ UNCHANGED statusVars
  /\ UNCHANGED <<midiVars, queueVars, displayVars>>

\* valueToButtonCount(value, max), and again for the next greater value
ValueToButtonCount ==
  /\ \E value \in CountValues, max \in CountMaxima :
       LET above == { v \in CountValues : v > value }
           greater == IF above = {} THEN value
                      ELSE CHOOSE v \in above : \A w \in above : v <= w
       IN lastCalc' = [ fn |-> "valueToButtonCount", value |-> value, max |-> max,
                        result |-> valueToButtonCount(value, max, build),
                        greater |-> greater,
                        resultOfGreater |-> valueToButtonCount(greater, max, build) ]
  /\ UNCHANGED <<inputVars, blitVars, frameVars>>
  /\ UNCHANGED statusVars
  /\ UNCHANGED <<midiVars, queueVars, displayVars>>

\* widths, heights and positions copyToScreen is called with in SpecBlit
BlitWidths == {0, 1, DOOMGENERIC_RESX, PUSH_SCREEN_WIDTH + 1}
BlitHeights == {1, DOOMGENERIC_RESY - PUSH_SCREEN_HEIGHT, PUSH_SCREEN_HEIGHT,
                DOOMGENERIC_RESY}
BlitColumns == {-1, 0, (PUSH_SCREEN_WIDTH - DOOMGENERIC_RESX) \div 2,
                PUSH_SCREEN_WIDTH - 1, PUSH_SCREEN_WIDTH,
                PUSH_SCREEN_STRIDE - 1, PUSH_SCREEN_STRIDE}
BlitRows == {-1, 0, PUSH_SCREEN_HEIGHT - 1, PUSH_SCREEN_HEIGHT}

\* PushHardware::copyToScreen(srcBuffer, srcX, srcY, srcWidth, srcHeight,
\* destX, destY)
CopyToScreen ==
  /\ lifecycle = "alive"
  /\ blitCount < MaxBlits
  /\ \E srcBuffer \in SourceFrames,
        srcY \in {0, PUSH_SCREEN_HEIGHT},
        srcWidth \in BlitWidths, srcHeight \in BlitHeights,
        destX \in BlitColumns, destY \in BlitRows :
       LET r == copyToScreen(mScreenBuffer, srcBuffer, 0, srcY, srcWidth, srcHeight,
                             destX, destY, Color32(0, 0, 0, 0))
       IN /\ mScreenBuffer' = r.screen
          /\ lastBlit' = [ op |-> "copyToScreen", srcBuffer |-> srcBuffer,
                           srcX |-> 0, srcY |-> srcY,
                           srcWidth |-> srcWidth, srcHeight |-> srcHeight,
                           destX |-> destX, destY |-> destY,
                           before |-> mScreenBuffer, cells |-> r.cells ]
  /\ blitCount' = blitCount + 1
  /\ UNCHANGED <<mDisplayData, usb, lastCall, framesAccepted, lifecycle, teardown>>
  /\ UNCHANGED <<inputVars, calcVars, statusVars, frameVars>>
  /\ UNCHANGED <<midiVars, queueVars>>

---------------------------------------------------------------------------
(* Drawing a frame *)

\* the main image at the right edge of the screen
mainCenter_right == PUSH_SCREEN_WIDTH - DOOMGENERIC_RESX

\* const auto mainCenter = (PUSH_SCREEN_WIDTH - DOOMGENERIC_RESX) / 2
mainCenter == (PUSH_SCREEN_WIDTH - DOOMGENERIC_RESX) \div 2

\* the two copyToScreen calls of AbleDoom::drawFrame: the top
\* PUSH_SCREEN_HEIGHT rows of the frame at column mainCenter, the rows
\* below them to the right of that, both at row 0
drawFrameCopies(screen, pFrameBuffer) ==
  LET stray == Color32(0, 0, 0, 0)
      main == copyToScreen(screen, pFrameBuffer, 0, 0, DOOMGENERIC_RESX,
                           PUSH_SCREEN_HEIGHT, mainCenter, 0, stray)
      side == copyToScreen(main.screen, pFrameBuffer, 0, PUSH_SCREEN_HEIGHT,
                           DOOMGENERIC_RESX, DOOMGENERIC_RESY - PUSH_SCREEN_HEIGHT,
                           mainCenter + DOOMGENERIC_RESX, 0, stray)
  IN [ screen |-> side.screen, cells |-> main.cells \cup side.cells ]

\* what the device layer does during one drawFrame call: the result of
\* libusb_handle_events_timeout, the completions it services (for the
\* transfers outstanding, oldest first) and the answers of the two
\* libusb_submit_transfer calls
DeviceRuns(u) ==
  LET all(c) == [i \in 1 .. Len(u.outstanding) |-> c]
      done == [status |-> "LIBUSB_TRANSFER_COMPLETED", full |-> TRUE]
      failed == [status |-> "LIBUSB_TRANSFER_ERROR", full |-> FALSE]
      run(pumpResult, completions, headerAnswer, dataAnswer) ==
        [ pumpResult |-> pumpResult, completions |-> completions,
          headerAnswer |-> headerAnswer, dataAnswer |-> dataAnswer ]
  IN { run(0, all(done), 0, 0),    \* every transfer completes
       run(0, <<>>, 0, 0),         \* none does yet
       run(0, all(failed), 0, 0),  \* the transfers fail
       run(0, all(done), 0, -1),   \* the payload submission is rejected
       run(-4, <<>>, 0, 0) }       \* the device is gone

\* the game changes the player between two frames
GameTick ==
  /\ lifecycle = "alive"
  /\ \E p \in Players : p # player /\ player' = p
  /\ UNCHANGED <<build, mLastButtonCounts, barLeds, lastFrame>>
  /\ UNCHANGED <<inputVars, calcVars, blitVars>>
  /\ UNCHANGED <<midiVars, queueVars, displayVars>>

\* DG_DrawFrame: AbleDoom::drawFrame(pFrameBuffer) inside runGuarded. The
\* two copies, then submitScreen, then updateHealthArmorDisplay; when
\* submitScreen throws, the status update is not reached and runGuarded
\* ends the program with exit(-1).
DrawFrame ==
  /\ lifecycle = "alive"
  /\ framesAccepted < MaxFrames
  /\ \E pFrameBuffer \in SourceFrames, device \in DeviceRuns(usb) :
     \E copies \in {drawFrameCopies(mScreenBuffer, pFrameBuffer)} :
     \E r \in {submitScreen(mDisplayData, usb, copies.screen,
                            device.pumpResult,
                            IF PumpsEvents(mDisplayData)
                            THEN device.completions ELSE <<>>,
                            device.headerAnswer, device.dataAnswer)} :
       LET thrown == r.result \in {"libusb error", "transfer failed"}
           status == IF thrown
                     THEN [sent |-> <<>>, last |-> mLastButtonCounts]
                     ELSE updateHealthArmorDisplay(player, mLastButtonCounts, build)
       IN /\ mScreenBuffer' = copies.screen
          /\ mDisplayData' = r.d
          /\ usb' = r.u
          /\ framesAccepted' = IF r.accepted THEN framesAccepted + 1 ELSE framesAccepted
          /\ lastCall' =
               [ result |-> r.result, code |-> r.code, pumped |-> r.pumped,
                 pumpResult |-> r.pumpResult, serviced |-> r.serviced,
                 completions |-> r.completions, accepted |-> r.accepted,
                 before |-> [d |-> mDisplayData, u |-> usb, screen |-> copies.screen] ]
          /\ lifecycle' = IF thrown THEN "exiting" ELSE "alive"
          /\ mLastButtonCounts' = status.last
          /\ barLeds' = LedsAfter(barLeds, status.sent)
          /\ midiSent' = status.sent
          /\ lastFrame' =
               [ op |-> "drawFrame", pFrameBuffer |-> pFrameBuffer,
                 before |-> mScreenBuffer, cells |-> copies.cells,
                 thrown |-> thrown,
                 seenBefore |-> lastFrame.seen,
                 seen |-> IF thrown THEN lastFrame.seen ELSE player,
                 lastBefore |-> mLastButtonCounts ]
  /\ lastLight' = [op |-> "drawFrame"]
  /\ midiMsg' = <<>>
  /\ decoded' = <<>>
  /\ UNCHANGED <<teardown, build, player>>
  /\ UNCHANGED <<inputVars, calcVars, blitVars, queueVars>>

---------------------------------------------------------------------------
(* The frame loop running for ever *)

\* the completions a pump services when the transfers complete successfully:
\* the oldest n of the transfers outstanding, each in full
SuccessfulRun(u, n) ==
  [i \in 1 .. n |-> [status |-> "LIBUSB_TRANSFER_COMPLETED", full |-> TRUE]]

\* submitScreen called from the frame loop (for (;;) doomgeneric_Tick()),
\* its pump servicing the oldest `serviced` transfers. An exception ends the
\* program (runGuarded). The logs of the writes and of the accepted frames
\* are not kept: the device layer passes the writes on, and the frames are
\* counted modulo MaxFrames + 1.
LoopSubmit(serviced) ==
  /\ lifecycle = "alive"
  /\ \E pumpResult \in (IF PumpsEvents(mDisplayData) THEN {0} \cup LibusbErrors ELSE {0}),
        headerAnswer \in SubmitAnswers, dataAnswer \in SubmitAnswers :
     \E r \in {submitScreen(mDisplayData, usb, mScreenBuffer, pumpResult,
                            IF PumpsEvents(mDisplayData)
                            THEN SuccessfulRun(usb, serviced) ELSE <<>>,
                            headerAnswer, dataAnswer)} :
       /\ mDisplayData' = r.d
       /\ usb' = [r.u EXCEPT !.writes = <<>>]
       /\ framesAccepted' = IF r.accepted
                            THEN (framesAccepted + 1) % (MaxFrames + 1)
                            ELSE framesAccepted
       /\ lastCall' =
            [ result |-> r.result, code |-> r.code, pumped |-> r.pumped,
              pumpResult |-> r.pumpResult, serviced |-> r.serviced,
              completions |-> r.completions, accepted |-> r.accepted,
              before |-> [d |-> mDisplayData, u |-> usb, screen |-> mScreenBuffer] ]
       /\ lifecycle' = IF r.result \in {"libusb error", "transfer failed"}
                       THEN "exiting" ELSE "alive"
  /\ UNCHANGED <<mScreenBuffer, teardown>>
  /\ UNCHANGED <<midiVars, queueVars>>
  /\ UNCHANGED appVars

\* a call by which every transfer submitted before it has completed
SubmitAfterCompletion == LoopSubmit(Len(usb.outstanding))

\* a call by which some transfer has not completed yet
SubmitBeforeCompletion ==
  \E serviced \in 0 .. (Len(usb.outstanding) - 1) : LoopSubmit(serviced)

---------------------------------------------------------------------------
(* Specifications *)

Next == CopyToScreenRaw \/ SubmitScreen \/ Destroy
Spec == Init /\ [][Next]_vars

NextMidi == OnMessage \/ FetchEvent \/ SetPadLight
SpecMidi == Init /\ [][NextMidi]_vars

NextLeds == SetButtonLight \/ SetPadLight \/ ResetLEDs \/ SetButtonBarLights
SpecLeds == Init /\ [][NextLeds]_vars

NextInput == OnInput \/ GetKey
SpecInput == Init /\ [][NextInput]_vars

NextCalc == ToBGR565 \/ ValueToButtonCount
SpecCalc == InitCalc /\ [][NextCalc]_vars

\* The frame loop never stops calling, and every transfer completes after
\* finitely many calls: some call after its submission finds it completed.
NextLoop == CopyToScreenRaw \/ SubmitAfterCompletion \/ SubmitBeforeCompletion
SpecLoop == Init /\ [][NextLoop]_vars /\ WF_vars(SubmitAfterCompletion)

NextBlit == CopyToScreen
SpecBlit == InitApp /\ [][NextBlit]_vars

NextFrame == GameTick \/ DrawFrame
SpecFrame == InitApp /\ [][NextFrame]_vars

NextRace == InputBegin \/ InputFinish \/ FrameBegin \/ FrameFinish
SpecRace == Init /\ [][NextRace]_vars

---------------------------------------------------------------------------
(* Properties of the display transfer pipeline (Spec) *)

\* how many of the writes are of the given transfer
CountWrites(writes, transfer) ==
  Cardinality({ i \in 1 .. Len(writes) : writes[i].transfer = transfer })

HeaderWrites == CountWrites(usb.writes, "mpHeaderTransfer")
PayloadWrites == CountWrites(usb.writes, "mpDataTransfer")

Raised == {"libusb error", "transfer failed"}

\* the last submitScreen call found a frame in flight and no failure, and
\* its pump serviced no completion; nothing has touched the pipeline since
CalledWhileInFlight ==
  /\ lifecycle = "alive"
  /\ lastCall.result # "none"
  /\ lastCall.before.d.mTransferInProgress
  /\ ~lastCall.before.d.mTransferFailed
  /\ lastCall.serviced = 0

DroppedUntouched ==
  /\ lastCall.result = "dropped"
  /\ mDisplayData = lastCall.before.d
  /\ usb = lastCall.before.u

\* C1 as stated: a submitScreen call made while a frame transfer is in
\* flight, whose pump services no completion, returns without error, submits
\* neither transfer and leaves the transfer state and the transfer buffer
\* unchanged.
C1_InFlightCallIsNoOp == CalledWhileInFlight => DroppedUntouched

\* C1, amended: the same, for a call whose pump also reports no error.
C1_InFlightCallIsNoOpUnlessPumpFails ==
  (CalledWhileInFlight /\ lastCall.pumpResult >= 0) => DroppedUntouched

\* a frame different from the one in flight was dropped
C1_Witness ==
  /\ CalledWhileInFlight
  /\ lastCall.pumpResult >= 0
  /\ lastCall.result = "dropped"
  /\ usb.writes # <<>>
  /\ usb.writes[Len(usb.writes)].screen # mScreenBuffer
  /\ Len(usb.outstanding) = 2

\* C2: at most one frame transfer is in flight: neither transfer object is
\* ever submitted while its previous submission is outstanding.
C2_AtMostOneFrameInFlight ==
  /\ usb.busySubmits = 0
  /\ Len(usb.outstanding) <= 2
  /\ \A i, j \in 1 .. Len(usb.outstanding) :
       usb.outstanding[i] = usb.outstanding[j] => i = j

\* a second frame is in flight after the first one completed
C2_Witness ==
  /\ framesAccepted = 2
  /\ Len(usb.writes) = 4
  /\ Len(usb.outstanding) = 2

\* C3: once a completion reports a non-success status or a short write the
\* pipeline is failed for good: every submitScreen call from then on raises,
\* no transfer is submitted any more, and nothing clears the failed state.
C3_FailureIsSticky ==
  /\ [](usb.badCompletion => mDisplayData.mTransferFailed)
  /\ []((mDisplayData.mTransferFailed /\ lifecycle = "alive")
          => lastCall.result \in Raised)
  /\ [][mDisplayData.mTransferFailed
          => (mDisplayData'.mTransferFailed /\ usb'.writes = usb.writes)]_vars

\* a call made after the failure has raised, with a transfer still outstanding
C3_Witness ==
  /\ usb.badCompletion
  /\ lastCall.before.d.mTransferFailed
  /\ lastCall.result = "transfer failed"
  /\ usb.outstanding # <<>>

\* C4: torn down with a frame transfer in flight, the destructor frees the
\* transfers and releases the device only after every outstanding transfer
\* has resolved or the wait deadline has elapsed.
C4_FreedOnlyAfterDrain ==
  (teardown.freed /\ teardown.inFlight) =>
    (teardown.outstandingAtFree = <<>> \/ teardown.deadlineElapsed)

FrameHeaderBytes == <<255, 204, 170, 136>> \o [i \in 1 .. 12 |-> 0]

WritesWellFormed ==
  \A i \in 1 .. Len(usb.writes) :
    /\ usb.writes[i].endpoint = 1
    /\ usb.writes[i].transfer = "mpHeaderTransfer"
         => usb.writes[i].data = FrameHeaderBytes
    /\ usb.writes[i].transfer = "mpDataTransfer"
         => (i > 1 /\ usb.writes[i - 1].transfer = "mpHeaderTransfer")

\* C6 as stated: every accepted submitScreen call issues the header write
\* and then the payload write, so header writes, payload writes and accepted
\* frames are equal in number.
C6_TwoWritesPerAcceptedFrame ==
  /\ WritesWellFormed
  /\ HeaderWrites = framesAccepted
  /\ PayloadWrites = framesAccepted

\* C6, amended: every write goes to endpoint 0x01, a header write carries
\* the 16 header bytes, a payload write comes right after a header write,
\* and payload writes <= header writes <= accepted frames, with equality
\* as long as the device layer has rejected no submission.
C6_HeaderThenPayload ==
  /\ WritesWellFormed
  /\ PayloadWrites <= HeaderWrites
  /\ HeaderWrites <= framesAccepted
  /\ mDisplayData.mDisplayError = 0
       => (HeaderWrites = framesAccepted /\ PayloadWrites = framesAccepted)
  /\ (lifecycle = "alive" /\ lastCall.accepted /\ mDisplayData.mDisplayError = 0)
       => /\ Len(usb.writes) = Len(lastCall.before.u.writes) + 2
          /\ usb.writes[Len(usb.writes) - 1].transfer = "mpHeaderTransfer"
          /\ usb.writes[Len(usb.writes)].transfer = "mpDataTransfer"

\* two frames accepted and sent
C6_Witness ==
  /\ framesAccepted = 2
  /\ lastCall.accepted
  /\ mDisplayData.mDisplayError = 0
  /\ HeaderWrites = 2
  /\ PayloadWrites = 2

ShapingMaskBytes == <<231, 243, 231, 255>>

PayloadIsMaskedFrame(w) ==
  /\ DOMAIN w.data = 0 .. (4 * ScreenWords - 1)
  /\ \A word \in 0 .. (ScreenWords - 1) : \A b \in 0 .. 3 :
       LET lo == w.screen[2 * word] % 256
           hi == w.screen[2 * word] \div 256
           lo2 == w.screen[2 * word + 1] % 256
           hi2 == w.screen[2 * word + 1] \div 256
           source == <<lo, hi, lo2, hi2>>
       IN /\ w.data[4 * word + b] = Xor8(source[b + 1], ShapingMaskBytes[b + 1])
          /\ Xor8(w.data[4 * word + b], ShapingMaskBytes[b + 1]) = source[b + 1]

\* C7: the payload of every accepted frame is the device frame buffer as it
\* was at submitScreen with every 32-bit word XORed with 0xFFE7F3E7 (bytes
\* E7 F3 E7 FF in memory), the mask applied twice gives the words back, and
\* submitScreen leaves the frame buffer as it was.
C7_PayloadIsMaskedFrameBuffer ==
  /\ [](\A i \in 1 .. Len(usb.writes) :
          usb.writes[i].transfer = "mpDataTransfer"
            => PayloadIsMaskedFrame(usb.writes[i]))
  /\ []((lifecycle = "alive" /\ lastCall.accepted)
          => mDisplayData.mUsbTransferBuffer
               = [i \in 0 .. (4 * ScreenWords - 1) |->
                    Xor8(ScreenBytes(lastCall.before.screen)[i],
                         ShapingMaskBytes[(i % 4) + 1])])
  /\ [][framesAccepted' # framesAccepted => mScreenBuffer' = mScreenBuffer]_vars

\* a payload of a frame that is neither blank nor the mask itself
C7_Witness ==
  \E i \in 1 .. Len(usb.writes) :
    /\ usb.writes[i].transfer = "mpDataTransfer"
    /\ usb.writes[i].screen[0] = 3855
    /\ usb.writes[i].data[0] = 232

---------------------------------------------------------------------------
(* Properties of the key-event queue under two contexts (SpecRace) *)

\* C5: the accesses of the two contexts to the queue exclude each other,
\* and so what fetchEvent has returned plus what is still queued is what
\* onInput has pushed, in order.
C5_QueueHandoffThreadSafe ==
  /\ ~(inputCtx.pc = "push_back" /\ frameCtx.pc = "pop_front")
  /\ (inputCtx.pc = "idle" /\ frameCtx.pc = "idle")
       => delivered \o mEventQueue = produced

---------------------------------------------------------------------------
(* Properties of the MIDI side (SpecMidi, SpecLeds) *)

PadRowStarts == <<92, 84, 76, 68, 60, 52, 44, 36>>

IsPadNoteMessage(m) ==
  Len(m) = 3 /\ (m[1] \div 16) \in {8, 9} /\ m[2] \in 36 .. 99

\* C8: a 3-byte note-on or note-off message with number n in 36..99 decodes
\* to exactly one event Pad{x, y}, y the row whose start is <= n <= start+7
\* and x the offset from it, pressed for note on and released for note off,
\* whatever the channel and byte 2; {0x90, 36, 100} gives Pad{0,7} pressed.
C8_PadMessagesDecodeToPads ==
  (lastLight.op = "onMessage" /\ IsPadNoteMessage(midiMsg)) =>
    /\ Len(decoded) = 1
    /\ \E y \in 0 .. 7 :
         /\ PadRowStarts[y + 1] <= midiMsg[2]
         /\ midiMsg[2] <= PadRowStarts[y + 1] + 7
         /\ decoded[1].id =
              [kind |-> "Pad", x |-> midiMsg[2] - PadRowStarts[y + 1], y |-> y]
    /\ decoded[1].id.x \in 0 .. 7
    /\ decoded[1].id.y \in 0 .. 7
    /\ decoded[1].pressed = ((midiMsg[1] \div 16) = 9)
    /\ midiMsg = <<144, 36, 100>>
         => decoded = << [id |-> [kind |-> "Pad", x |-> 0, y |-> 7],
                          pressed |-> TRUE] >>

\* {0x9A, 92, 0}: another channel, velocity 0, first pad of row 0
C8_Witness ==
  /\ lastLight.op = "onMessage"
  /\ midiMsg = <<154, 92, 0>>
  /\ decoded = << [id |-> [kind |-> "Pad", x |-> 0, y |-> 0], pressed |-> TRUE] >>

\* C9: decoding a pad note number and encoding the pad again with the LED
\* driver's computation gives the number back, for every number in 36..99;
\* encoding a pad and decoding the number gives the pad back, for every pad.
C9_PadNumberRoundTrip ==
  /\ (lastLight.op = "onMessage" /\ IsPadNoteMessage(midiMsg)) =>
       /\ decoded # <<>>
       /\ decoded[1].id.kind = "Pad"
       /\ setPadLight(decoded[1].id.x, decoded[1].id.y, 0)[1][2] = midiMsg[2]
  /\ lastLight.op = "setPadLight" =>
       /\ midiSent[1][2] \in 36 .. 99
       /\ onMessage(midiSent[1]) # <<>>
       /\ onMessage(midiSent[1])[1].id =
            [kind |-> "Pad", x |-> lastLight.x, y |-> lastLight.y]

\* pad (7, 0) was lit through note 99
C9_Witness ==
  /\ lastLight.op = "setPadLight"
  /\ lastLight.x = 7
  /\ lastLight.y = 0
  /\ midiSent = << <<144, 99, 122>> >>

CountMessages(messages, m) ==
  Cardinality({ i \in 1 .. Len(messages) : messages[i] = m })

ValidButtons ==
  ({3, 9} \cup (20 .. 119)) \ {52, 53, 66, 67, 68, 97, 98, 99, 100, 101}

\* C10: resetLEDs sends exactly one off-command for each valid button number
\* (3, 9, and 20..119 without 52, 53, 66, 67, 68, 97..101) and exactly one
\* for each of the 64 pads.
C10_ResetTurnsEveryLedOffOnce ==
  lastLight.op = "resetLEDs" =>
    /\ \A b \in ValidButtons : CountMessages(midiSent, <<176, b, 0>>) = 1
    /\ \A x \in 0 .. 7, y \in 0 .. 7 :
         CountMessages(midiSent, <<128, PadRowStarts[y + 1] + x, 0>>) = 1
    /\ Cardinality({ i \in 1 .. Len(midiSent) : midiSent[i][1] = 128 }) = 64

C10_Witness ==
  /\ lastLight.op = "resetLEDs"
  /\ Len(midiSent) = 166
  /\ midiSent[1] = <<176, 3, 0>>
  /\ midiSent[166] = <<128, 43, 0>>

---------------------------------------------------------------------------
(* C11: Shift + Save *)

\* the Shift button is down after a log of control events: its last event
\* in the log, if there is one, was a press
ShiftIsDown(log) ==
  LET shifts == { i \in 1 .. Len(log) : log[i].id = ButtonId(49) } IN
  /\ shifts # {}
  /\ log[CHOOSE i \in shifts : \A j \in shifts : j <= i].pressed

\* the key events pushed by the step, read off the history of pushes
PushedByStep == SubSeq(produced', Len(produced) + 1, Len(produced'))

\* C11: a press of Save (button 82) pushes exactly one key event, a press of
\* F9 when Shift (button 49) is down and a press of F6 when it is not; no
\* event of another control pushes F9.
C11_ShiftSaveIsLoad ==
  [][ \A e \in ControlEvents :
        inputLog' = Append(inputLog, e) =>
          /\ (e.id = ButtonId(82) /\ e.pressed) =>
                PushedByStep =
                  << [ key |-> IF ShiftIsDown(inputLog) THEN "KEY_F9" ELSE "KEY_F6",
                       pressed |-> TRUE ] >>
          /\ (e.id # ButtonId(82)) =>
                \A i \in 1 .. Len(PushedByStep) : PushedByStep[i].key # "KEY_F9"
    ]_vars

\* Shift pressed, Save pressed (F9), Shift released, Save pressed (F6)
C11_Witness ==
  /\ inputLog = << [id |-> ButtonId(49), pressed |-> TRUE],
                   [id |-> ButtonId(82), pressed |-> TRUE],
                   [id |-> ButtonId(49), pressed |-> FALSE],
                   [id |-> ButtonId(82), pressed |-> TRUE] >>
  /\ produced = << [key |-> "KEY_F9", pressed |-> TRUE],
                   [key |-> "KEY_F6", pressed |-> TRUE] >>

---------------------------------------------------------------------------
(* C12: the queue in a single context *)

\* C12: the events DG_GetKey has returned, followed by the events still
\* queued, are the events onInput has pushed, in the order pushed; a call
\* on an empty queue returns 0 and changes neither its outputs nor the
\* mapper's state.
C12_FetchIsFifoExactlyOnce ==
  /\ [](delivered \o mEventQueue = produced)
  /\ [][ (mEventQueue = <<>> /\ inputLog' = inputLog) =>
            /\ keyOut'.result = 0
            /\ keyOut'.pressed = keyOut.pressed
            /\ keyOut'.doomKey = keyOut.doomKey
            /\ UNCHANGED <<mEventQueue, mShiftHeld, produced, delivered>>
      ]_vars

\* three events returned, the first two equal, then a call on the empty queue
C12_Witness ==
  /\ Len(delivered) = 3
  /\ delivered[1] = delivered[2]
  /\ delivered = produced
  /\ mEventQueue = <<>>
  /\ keyOut.result = 0

---------------------------------------------------------------------------
(* C13: one key event per mapped control event *)

\* the rows of the mapping table with the id of e
RowsFor(e) ==
  { i \in 1 .. Len(INPUT_MAPPING_TABLE) : INPUT_MAPPING_TABLE[i].id = e.id }

\* the key of the first of them
FirstRowKey(e) ==
  INPUT_MAPPING_TABLE[CHOOSE i \in RowsFor(e) : \A j \in RowsFor(e) : i <= j].doomKey

\* Button(49) events push nothing and set the flag to their pressed value;
\* other events leave the flag alone
ShiftFlagFollowsButton49(e) ==
  IF e.id = ButtonId(49)
  THEN PushedByStep = <<>> /\ mShiftHeld' = e.pressed
  ELSE mShiftHeld' = mShiftHeld

\* C13 as stated: a control event whose id is in the table pushes exactly one
\* key event with the key of the first row of that id and the event's
\* pressed flag; any other event pushes none; only Button(49) events change
\* the Shift flag, and they push nothing.
C13_OneKeyEventOfFirstRow ==
  [][ \A e \in ControlEvents :
        inputLog' = Append(inputLog, e) =>
          /\ mEventQueue' = mEventQueue \o PushedByStep
          /\ PushedByStep = IF RowsFor(e) = {} THEN <<>>
                            ELSE << [key |-> FirstRowKey(e), pressed |-> e.pressed] >>
          /\ ShiftFlagFollowsButton49(e)
    ]_vars

\* C13 amended: the same, except that the key event carries KEY_F9 when the
\* first row's key is KEY_F6 and Shift is down.
C13_OneKeyEventOfFirstRowOrLoad ==
  [][ \A e \in ControlEvents :
        inputLog' = Append(inputLog, e) =>
          /\ mEventQueue' = mEventQueue \o PushedByStep
          /\ PushedByStep =
               IF RowsFor(e) = {} THEN <<>>
               ELSE << [ key |-> IF FirstRowKey(e) = "KEY_F6" /\ ShiftIsDown(inputLog)
                                 THEN "KEY_F9" ELSE FirstRowKey(e),
                         pressed |-> e.pressed ] >>
          /\ ShiftFlagFollowsButton49(e)
    ]_vars

\* a mapped pad released, an unmapped button pressed, Shift pressed, and a
\* mapped button pressed: two key events, the flag set
C13_Witness ==
  /\ inputLog = << [id |-> PadId(0, 3), pressed |-> FALSE],
                   [id |-> ButtonId(50), pressed |-> TRUE],
                   [id |-> ButtonId(49), pressed |-> TRUE],
                   [id |-> ButtonId(46), pressed |-> TRUE] >>
  /\ produced = << [key |-> "KEY_FIRE", pressed |-> FALSE],
                   [key |-> "KEY_UPARROW", pressed |-> TRUE] >>
  /\ mShiftHeld

---------------------------------------------------------------------------
(* C14: input that decodes to nothing *)

\* a message of another length than 3, of another kind than note off (8),
\* note on (9) or control change (11), or a note outside the pad window
IsDiscardedMessage(m) ==
  \/ Len(m) # 3
  \/ /\ Len(m) = 3
     /\ \/ (m[1] \div 16) \notin {8, 9, 11}
        \/ (m[1] \div 16) \in {8, 9} /\ (m[2] < 36 \/ m[2] > 99)

\* C14: onMessage called with such a message calls the input callback for
\* no event, pushes no key event and leaves the Shift flag as it was.
C14_DiscardedInputChangesNothing ==
  [][ (lastLight'.op = "onMessage" /\ IsDiscardedMessage(midiMsg')) =>
        /\ decoded' = <<>>
        /\ mEventQueue' = mEventQueue
        /\ mShiftHeld' = mShiftHeld
    ]_vars

\* a note on below the pad window, received while Shift is held
C14_Witness ==
  /\ lastLight.op = "onMessage"
  /\ midiMsg = <<144, 35, 127>>
  /\ decoded = <<>>
  /\ mEventQueue = <<>>
  /\ mShiftHeld

---------------------------------------------------------------------------
(* C15: control change messages *)

\* C15: a message of three bytes whose kind is control change (11, on any
\* channel) decodes to the one event Button(byte 1), pressed exactly when
\* byte 2 is 127.
C15_ControlChangeDecodesToButton ==
  (lastLight.op = "onMessage" /\ Len(midiMsg) = 3 /\ midiMsg[1] \div 16 = 11) =>
    decoded = << [ id |-> [kind |-> "Button", number |-> midiMsg[2]],
                   pressed |-> (midiMsg[3] = 127) ] >>

\* {0xB0, 49, 127}: Button(49) pressed, which sets the Shift flag
C15_Witness ==
  /\ lastLight.op = "onMessage"
  /\ midiMsg = <<176, 49, 127>>
  /\ decoded = << [id |-> [kind |-> "Button", number |-> 49], pressed |-> TRUE] >>
  /\ mShiftHeld

---------------------------------------------------------------------------
(* C16: the rectangular copy stays on the screen *)

\* index c of the screen buffer is a cell of the visible screen: inside the
\* buffer, and in a column left of the stride padding
OnScreen(c) ==
  /\ c >= 0
  /\ c < PUSH_SCREEN_STRIDE * PUSH_SCREEN_HEIGHT
  /\ c % PUSH_SCREEN_STRIDE < PUSH_SCREEN_WIDTH

\* C16: every index a rectangular copyToScreen call stores to is a cell of
\* the visible screen, whatever the size of the rectangle and its position.
C16_CopyStaysOnScreen ==
  lastBlit.op = "copyToScreen" => \A c \in lastBlit.cells : OnScreen(c)

---------------------------------------------------------------------------
(* C17: the pixel converter *)

\* C17: the 16-bit result has the top 5 bits of the blue byte in bits
\* 15..11, the top 6 bits of the green byte in bits 10..5 and the top 5 bits
\* of the red byte in bits 4..0, whatever the alpha byte; pure red, green
\* and blue give 0x001F, 0x07E0 and 0xF800.
C17_PixelIsBgr565 ==
  lastCalc.fn = "toBGR565" =>
    /\ lastCalc.result \in 0 .. 65535
    /\ lastCalc.result \div 2048 = lastCalc.color.b \div 8
    /\ (lastCalc.result \div 32) % 64 = lastCalc.color.g \div 4
    /\ lastCalc.result % 32 = lastCalc.color.r \div 8
    /\ (lastCalc.color.r = 255 /\ lastCalc.color.g = 0 /\ lastCalc.color.b = 0)
         => lastCalc.result = 31
    /\ (lastCalc.color.r = 0 /\ lastCalc.color.g = 255 /\ lastCalc.color.b = 0)
         => lastCalc.result = 2016
    /\ (lastCalc.color.r = 0 /\ lastCalc.color.g = 0 /\ lastCalc.color.b = 255)
         => lastCalc.result = 63488

\* 0xFFFF0000 (opaque pure red) converted
C17_Witness ==
  /\ lastCalc.fn = "toBGR565"
  /\ lastCalc.color = [a |-> 255, r |-> 255, g |-> 0, b |-> 0]
  /\ lastCalc.result = 31

---------------------------------------------------------------------------
(* C19: the level of a status bar *)

\* r is an integer nearest to 8 * value / max, clamped to 0 .. 8 (for
\* max > 0; a tie may go either way)
IsNearestLevel(r, value, max) ==
  IF value <= 0 THEN r = 0
  ELSE IF value >= max THEN r = 8
  ELSE /\ r \in 0 .. 8
       /\ (2 * r - 1) * max <= 16 * value
       /\ 16 * value <= (2 * r + 1) * max

\* C19: for max > 0 the result is the nearest integer to 8 * value / max
\* clamped to 0 .. 8, it does not decrease when value grows, and
\* (0, 100), (100, 100), (50, 100), (12, 100) give 0, 8, 4, 1.
C19_LevelIsNearestEighth ==
  (lastCalc.fn = "valueToButtonCount" /\ lastCalc.max > 0) =>
    /\ IsNearestLevel(lastCalc.result, lastCalc.value, lastCalc.max)
    /\ lastCalc.result <= lastCalc.resultOfGreater
    /\ (lastCalc.max = 100 /\ lastCalc.value = 0) => lastCalc.result = 0
    /\ (lastCalc.max = 100 /\ lastCalc.value = 100) => lastCalc.result = 8
    /\ (lastCalc.max = 100 /\ lastCalc.value = 50) => lastCalc.result = 4
    /\ (lastCalc.max = 100 /\ lastCalc.value = 12) => lastCalc.result = 1

---------------------------------------------------------------------------
(* C18: the status bars are rendered on change only *)

\* the first buttons of the health, armor and ammo bars
BarFirstButton == [health |-> 102, armor |-> 20, ammo |-> 36]

\* the messages of a sequence that address one of the 8 buttons of a bar
BarMessages(sent, bar) ==
  SelectSeq(sent, LAMBDA m : m[2] \in BarFirstButton[bar] .. (BarFirstButton[bar] + 7))

\* the number of bars whose level differs between two triples of levels
BarsChanged(was, now) ==
  Cardinality({ bar \in DOMAIN BarFirstButton : was[bar] # now[bar] })

\* C18: the status update of a frame sends nothing for a bar whose level
\* equals the remembered one and exactly 8 messages, one per button of the
\* bar, for a bar whose level differs; afterwards the remembered level is the
\* current one. An update for the values of the update before it sends
\* nothing, and nothing is sent besides the messages of the changed bars.
C18_BarsRenderedOnChangeOnly ==
  (lastFrame.op = "drawFrame" /\ ~lastFrame.thrown) =>
    LET now == ButtonCounts(lastFrame.seen, build)
        was == lastFrame.lastBefore
    IN /\ \A bar \in DOMAIN BarFirstButton :
            /\ now[bar] = was[bar] => BarMessages(midiSent, bar) = <<>>
            /\ now[bar] # was[bar] =>
                 /\ Len(BarMessages(midiSent, bar)) = 8
                 /\ \A k \in 1 .. 8 :
                      BarMessages(midiSent, bar)[k][2] = BarFirstButton[bar] + (k - 1)
            /\ mLastButtonCounts[bar] = now[bar]
       /\ Len(midiSent) = 8 * BarsChanged(was, now)
       /\ lastFrame.seen = lastFrame.seenBefore => midiSent = <<>>

\* the health level fell from 8 to 3 while armor and ammunition stayed: the
\* 8 messages of the health bar and no other
C18_Witness ==
  /\ lastFrame.op = "drawFrame"
  /\ ~lastFrame.thrown
  /\ lastFrame.lastBefore = [health |-> 8, armor |-> 0, ammo |-> 2]
  /\ mLastButtonCounts = [health |-> 3, armor |-> 0, ammo |-> 2]
  /\ Len(midiSent) = 8
  /\ Len(BarMessages(midiSent, "health")) = 8

---------------------------------------------------------------------------
(* C20: the placement of a frame on the screen *)

\* the screen after drawFrame(pFrameBuffer) as the layout describes it: the
\* top PUSH_SCREEN_HEIGHT rows of the frame in the columns from
\* DOOMGENERIC_RESX, the rows below them in the columns from
\* 2 * DOOMGENERIC_RESX, both from row 0, and the screen before elsewhere
FramePlaced(before, pFrameBuffer) ==
  [ c \in ScreenCells |->
      LET row == c \div PUSH_SCREEN_STRIDE
          col == c % PUSH_SCREEN_STRIDE
      IN IF col >= DOOMGENERIC_RESX /\ col < 2 * DOOMGENERIC_RESX
         THEN toBGR565(pFrameBuffer[row * DOOMGENERIC_RESX + (col - DOOMGENERIC_RESX)])
         ELSE IF /\ col >= 2 * DOOMGENERIC_RESX
                 /\ col < 3 * DOOMGENERIC_RESX
                 /\ row < DOOMGENERIC_RESY - PUSH_SCREEN_HEIGHT
         THEN toBGR565(pFrameBuffer[(PUSH_SCREEN_HEIGHT + row) * DOOMGENERIC_RESX
                                    + (col - 2 * DOOMGENERIC_RESX)])
         ELSE before[c] ]

\* the cells of the two regions of a frame
FrameCells ==
  { c \in ScreenCells :
      \/ /\ c % PUSH_SCREEN_STRIDE >= DOOMGENERIC_RESX
         /\ c % PUSH_SCREEN_STRIDE < 2 * DOOMGENERIC_RESX
      \/ /\ c % PUSH_SCREEN_STRIDE >= 2 * DOOMGENERIC_RESX
         /\ c % PUSH_SCREEN_STRIDE < 3 * DOOMGENERIC_RESX
         /\ c \div PUSH_SCREEN_STRIDE < DOOMGENERIC_RESY - PUSH_SCREEN_HEIGHT }

\* C20: after drawFrame the screen holds the converted top rows of the
\* frame in the middle third and the converted rows below them at the top of
\* the right third; every other cell, the controls image and the padding of
\* each row, is what it was, and submitScreen was called with that screen.
C20_FrameSplitBesideControls ==
  lastFrame.op = "drawFrame" =>
    /\ mScreenBuffer = FramePlaced(lastFrame.before, lastFrame.pFrameBuffer)
    /\ lastFrame.cells = FrameCells
    /\ \A c \in ScreenCells \ FrameCells :
         /\ mScreenBuffer[c] = lastFrame.before[c]
         /\ mScreenBuffer[c] = CONTROLS_IMAGE[c]
    /\ lastCall.before.screen = mScreenBuffer

\* a second frame drawn over a different first one
C20_Witness ==
  /\ lastFrame.op = "drawFrame"
  /\ lastFrame.before # CONTROLS_IMAGE
  /\ mScreenBuffer # lastFrame.before
  /\ mScreenBuffer[DOOMGENERIC_RESX] = toBGR565(lastFrame.pFrameBuffer[0])
  /\ mScreenBuffer[0] = CONTROLS_IMAGE[0]

---------------------------------------------------------------------------
(* C21: the transfer buffer while the payload transfer is outstanding *)

\* the transfers still outstanding when a submitScreen call has run its
\* pump, that is, when it decides whether to copy the frame
OutstandingAfterPump(call) ==
  SubSeq(call.before.u.outstanding, call.serviced + 1,
         Len(call.before.u.outstanding))

IsOutstanding(transfer, outstanding) ==
  \E i \in 1 .. Len(outstanding) : outstanding[i] = transfer

\* C21: a submitScreen call that copies the frame into the transfer buffer
\* and XORs it finds no payload transfer outstanding at that point, the
\* transfer buffer changes in no other step, and a call that raises or drops
\* the frame leaves it as it was.
C21_BufferNotWrittenWhilePayloadOutstanding ==
  /\ [](lastCall.accepted =>
          ~IsOutstanding("mpDataTransfer", OutstandingAfterPump(lastCall)))
  /\ []((lastCall.result # "none" /\ ~lastCall.accepted) =>
          mDisplayData.mUsbTransferBuffer = lastCall.before.d.mUsbTransferBuffer)
  /\ [][(mDisplayData'.mUsbTransferBuffer # mDisplayData.mUsbTransferBuffer) =>
          (lastCall'.accepted /\ lastCall'.before.u = usb)]_vars

\* the payload of the first frame was outstanding when submitScreen was
\* called; its pump serviced both completions and the second frame was
\* written over the first
C21_Witness ==
  /\ lastCall.accepted
  /\ IsOutstanding("mpDataTransfer", lastCall.before.u.outstanding)
  /\ lastCall.serviced = 2
  /\ mDisplayData.mUsbTransferBuffer # lastCall.before.d.mUsbTransferBuffer

---------------------------------------------------------------------------
(* C22: the event pump of a submitScreen call *)

\* C22 as stated: every submitScreen call, whatever the state of the
\* pipeline, runs the event pump.
C22_EveryCallPumps ==
  lastCall.result # "none" => lastCall.pumped

\* C22, amended: a submitScreen call runs the event pump, once and before
\* it decides, exactly when no failure is recorded at the call; what it
\* decides follows the state the pump left. A call that finds a failure
\* recorded runs no pump, services no completion and raises.
C22_PumpsUnlessFailed ==
  lastCall.result # "none" =>
    /\ lastCall.pumped <=> (/\ ~lastCall.before.d.mTransferFailed
                            /\ lastCall.before.d.mDisplayError >= 0)
    /\ ~lastCall.pumped =>
         /\ lastCall.serviced = 0
         /\ lastCall.result \in Raised
         /\ lifecycle = "alive" => usb = lastCall.before.u
    /\ (lastCall.pumped /\ lastCall.pumpResult < 0) =>
         (lastCall.result = "libusb error" /\ lastCall.code = lastCall.pumpResult)
    /\ (lastCall.pumped /\ lastCall.pumpResult >= 0 /\ lifecycle = "alive") =>
         /\ lastCall.result = "transfer failed" <=> mDisplayData.mTransferFailed
         /\ lastCall.result = "dropped" <=>
              (/\ ~mDisplayData.mTransferFailed
               /\ mDisplayData.mTransferInProgress
               /\ ~lastCall.accepted)

\* a call made with a rejected submission recorded: no pump, the header
\* transfer of the rejected frame still outstanding
C22_Witness ==
  /\ lastCall.result = "libusb error"
  /\ lastCall.before.d.mDisplayError < 0
  /\ ~lastCall.pumped
  /\ usb.outstanding # <<>>

---------------------------------------------------------------------------
(* C23: from in flight back to idle *)

CompletedInFull(c) == c.status = "LIBUSB_TRANSFER_COMPLETED" /\ c.full

\* the pump of the call serviced a successful, full completion of `transfer`
ServicedInFull(call, transfer) ==
  \E i \in 1 .. call.serviced :
    /\ call.before.u.outstanding[i] = transfer
    /\ CompletedInFull(call.completions[i])

\* mTransferInProgress when the pump of the last call had run: a call that
\* goes on to send found it clear, any other call leaves it as the pump did
InFlightAfterPump ==
  IF lastCall.accepted THEN FALSE ELSE mDisplayData.mTransferInProgress

\* a call made with a frame in flight has the pipeline idle after its pump
\* exactly when the pump serviced the payload's successful full completion;
\* the header's alone leaves it in flight and the frame is dropped
IdleExactlyOnPayloadCompletion ==
  (lifecycle = "alive" /\ lastCall.pumped /\ lastCall.before.d.mTransferInProgress) =>
    /\ ~InFlightAfterPump <=> ServicedInFull(lastCall, "mpDataTransfer")
    /\ (/\ lastCall.serviced = 1
        /\ ServicedInFull(lastCall, "mpHeaderTransfer")
        /\ lastCall.pumpResult >= 0)
         => (lastCall.result = "dropped" /\ mDisplayData.mTransferInProgress)

\* the pump of the last call reported no error and every completion it
\* serviced was successful and full
PumpWentWell ==
  /\ lastCall.pumpResult >= 0
  /\ \A i \in 1 .. lastCall.serviced : CompletedInFull(lastCall.completions[i])

\* C23 as stated: the pipeline is idle again exactly when the payload
\* transfer has completed successfully in full, and a submitScreen call
\* whose pump services that completion accepts the new frame in the same
\* call.
C23_AcceptsOnPayloadCompletion ==
  /\ IdleExactlyOnPayloadCompletion
  /\ (lastCall.pumped /\ ServicedInFull(lastCall, "mpDataTransfer"))
       => lastCall.accepted

\* C23, amended: the same, the call accepting the new frame when its pump
\* reported no error and serviced no failed completion, and raising
\* otherwise; it never drops the frame.
C23_AcceptsOnPayloadCompletionIfPumpWentWell ==
  /\ IdleExactlyOnPayloadCompletion
  /\ (lastCall.pumped /\ ServicedInFull(lastCall, "mpDataTransfer"))
       => /\ PumpWentWell => lastCall.accepted
          /\ ~PumpWentWell => lastCall.result \in Raised

\* the second frame was accepted by the call whose pump serviced both
\* completions of the first
C23_Witness ==
  /\ lastCall.accepted
  /\ lastCall.before.d.mTransferInProgress
  /\ lastCall.serviced = 2
  /\ ServicedInFull(lastCall, "mpDataTransfer")
  /\ PumpWentWell
  /\ framesAccepted = 2

---------------------------------------------------------------------------
(* C24: a submission the device layer rejects *)

\* the last call recorded a rejected submission
RecordedRejection ==
  /\ lastCall.accepted
  /\ lastCall.before.d.mDisplayError >= 0
  /\ mDisplayData.mDisplayError < 0

\* C24: a rejected submission records its code for good: the call that
\* records it submits at most the header and does not mark the pipeline in
\* flight, every later submitScreen call raises a hardware error with that
\* code, and with a code recorded and the pipeline not marked in flight no
\* transfer is outstanding.
C24_RejectionIsStickyAndLeavesNothingOutstanding ==
  /\ RecordedRejection =>
       /\ ~mDisplayData.mTransferInProgress
       /\ Len(usb.writes) <= Len(lastCall.before.u.writes) + 1
       /\ \A i \in 1 .. Len(usb.writes) :
            i > Len(lastCall.before.u.writes)
              => usb.writes[i].transfer = "mpHeaderTransfer"
  /\ (lastCall.result # "none" /\ lastCall.before.d.mDisplayError < 0) =>
       /\ lastCall.result = "libusb error"
       /\ lastCall.code = lastCall.before.d.mDisplayError
       /\ mDisplayData.mDisplayError = lastCall.before.d.mDisplayError
  /\ (mDisplayData.mDisplayError < 0 /\ ~mDisplayData.mTransferInProgress) =>
       usb.outstanding = <<>>

---------------------------------------------------------------------------
(* C25: the buttons resetLEDs addresses *)

\* the control change messages (button commands) of a sequence
ButtonCommands(messages) == SelectSeq(messages, LAMBDA m : m[1] = 176)

\* the note messages (pad commands) of a sequence
PadCommands(messages) == SelectSeq(messages, LAMBDA m : m[1] \in {128, 144})

\* C25: every button command of resetLEDs addresses a number of the valid
\* enumeration, none an excluded number or a number outside {3, 9} and
\* 20 .. 119 such as 0; there are 92 button commands and 64 pad commands.
C25_ResetAddressesValidButtonsOnly ==
  lastLight.op = "resetLEDs" =>
    /\ \A i \in 1 .. Len(ButtonCommands(midiSent)) :
         ButtonCommands(midiSent)[i][2] \in ValidButtons
    /\ Len(ButtonCommands(midiSent)) = 92
    /\ Len(PadCommands(midiSent)) = 64

---------------------------------------------------------------------------
(* C26: the messages of a bar *)

\* the colour of a bar of level L
BarColour(L) == IF L < 3 THEN 127 ELSE IF L < 6 THEN 7 ELSE 126

\* the 8 buttons of the bar that starts at button F
BarButtons(F) == F .. (F + 7)

\* the buttons of the input-mapping table and the modifier button
MappedButtons ==
  { INPUT_MAPPING_TABLE[i].id.number :
      i \in { j \in DOMAIN INPUT_MAPPING_TABLE :
                INPUT_MAPPING_TABLE[j].id.kind = "Button" } }
    \cup {SHIFT_BUTTON}

\* the buttons the status update addresses when all three bars have changed,
\* in the order of the messages
ButtonsOfFullUpdate ==
  LET sent == updateHealthArmorDisplay(Player(100, 100, 200, 200),
                                       [health |-> 0, armor |-> 0, ammo |-> 0],
                                       "x86-64").sent
  IN [k \in 1 .. Len(sent) |-> sent[k][2]]

\* C26: rendering a bar of level L from button F sends 8 control change
\* messages, the one for button F + i carrying the colour of L for i < L and
\* 0 otherwise; the bars start at 102, 20 and 36, so their buttons are
\* pairwise disjoint and none is a mapped button or button 49.
C26_BarMessagesAndRanges ==
  /\ lastLight.op = "setButtonBarLights" =>
       /\ Len(midiSent) = 8
       /\ \A i \in 0 .. 7 :
            midiSent[i + 1] =
              << 176, lastLight.firstButtonId + i,
                 IF i < lastLight.numLitButtons
                 THEN BarColour(lastLight.numLitButtons) ELSE 0 >>
  /\ ButtonsOfFullUpdate =
       [k \in 1 .. 24 |-> IF k <= 8 THEN 102 + (k - 1)
                          ELSE IF k <= 16 THEN 20 + (k - 9)
                          ELSE 36 + (k - 17)]
  /\ BarButtons(102) \cap BarButtons(20) = {}
  /\ BarButtons(102) \cap BarButtons(36) = {}
  /\ BarButtons(20) \cap BarButtons(36) = {}
  /\ (BarButtons(102) \cup BarButtons(20) \cup BarButtons(36)) \cap MappedButtons = {}

\* the armor bar rendered at level 4: four buttons in the middle colour,
\* four off
C26_Witness ==
  /\ lastLight.op = "setButtonBarLights"
  /\ lastLight.numLitButtons = 4
  /\ lastLight.firstButtonId = 20
  /\ midiSent[4] = <<176, 23, 7>>
  /\ midiSent[5] = <<176, 24, 0>>

---------------------------------------------------------------------------
(* C27: press and release of a control *)

\* the key event onInput pushed for the i-th control event of the log, a
\* mapped one: every mapped event pushes one key event
KeyEventOf(i) ==
  produced[Cardinality({ k \in 1 .. i : RowsFor(inputLog[k]) # {} })]

\* C27: the key event pushed for the release of a mapped control carries the
\* key of the key event pushed for the press before it, whatever Shift
\* events lie between the two.
C27_ReleaseCarriesKeyOfPress ==
  \A i, j \in 1 .. Len(inputLog) :
    (/\ i < j
     /\ RowsFor(inputLog[i]) # {}
     /\ inputLog[j].id = inputLog[i].id
     /\ inputLog[i].pressed
     /\ ~inputLog[j].pressed
     /\ \A k \in (i + 1) .. (j - 1) : inputLog[k].id # inputLog[i].id)
      => KeyEventOf(j).key = KeyEventOf(i).key

---------------------------------------------------------------------------
(* C28: the status bars and the levels the mapper remembers *)

\* C28: for each bar, of remembered level L, the first L of its 8 buttons
\* are lit and the other buttons are off, from the construction of the
\* mapper on and for every player it is constructed with.
C28_BarLedsShowRememberedLevel ==
  \A bar \in DOMAIN BarFirstButton :
    \A i \in 0 .. 7 :
      (barLeds[BarFirstButton[bar] + i] # 0) <=> (i < mLastButtonCounts[bar])

---------------------------------------------------------------------------
(* C29: frames keep flowing *)

\* another frame is accepted after each one, which a call does only when
\* its pump has left the pipeline idle, and the pipeline is never failed
FramesFlow ==
  /\ \A n \in 0 .. MaxFrames : [](framesAccepted = n => <>(framesAccepted # n))
  /\ [](~mDisplayData.mTransferFailed /\ mDisplayData.mDisplayError >= 0)

\* the device layer has rejected no submission and no pump has reported an
\* error
DeviceLayerAnswersWell ==
  /\ mDisplayData.mDisplayError >= 0
  /\ lastCall.pumpResult >= 0

\* C29 as stated: with every submitted transfer completing successfully and
\* the frame loop calling submitScreen for ever, every accepted frame is
\* followed by another accepted frame, the pipeline does not stay in flight
\* and is never failed.
C29_FramesKeepFlowing == FramesFlow

\* C29, amended: the same, as long as the device layer rejects no submission
\* and its event pump reports no error.
C29_FramesKeepFlowingWhileDeviceAnswers ==
  ([]DeviceLayerAnswersWell) => FramesFlow

\* a frame accepted by the call whose pump serviced the completions of the
\* frame before it, the counter of frames having wrapped around
C29_Witness ==
  /\ lastCall.accepted
  /\ lastCall.serviced = 2
  /\ lastCall.before.d.mTransferInProgress
  /\ mDisplayData.mTransferInProgress
  /\ usb.writes = <<>>
  /\ framesAccepted = 0
  /\ lifecycle = "alive"

=============================================================================
